---- MODULE Spec2Model ----
(***************************************************************************)
(* A model of the Mini-PL interpreter: the token stream that the Scanner   *)
(* hands out, the recursive-descent Parser that builds the syntax tree and *)
(* the tree-walking Interpreter with its one global variable table.        *)
(*                                                                         *)
(* Text is modelled as sequences of one-character strings, so that         *)
(* concatenation, lower-casing and integer parsing are computed and not    *)
(* assumed.                                                                *)
(***************************************************************************)
EXTENDS Integers, Sequences, FiniteSets, TLC

(***************************************************************************)
(* tokens.rs: Value and Token                                              *)
(***************************************************************************)
NumberV(n) == [tag |-> "Number", n |-> n]

StringV(s) == [tag |-> "String", s |-> s]

BooleanV(b) == [tag |-> "Boolean", b |-> b]

CharV(c) == [tag |-> "Char", c |-> c]

NoneV == [tag |-> "None"]

Token(type, value) == [type |-> type, value |-> value]

\* The token the scanner returns at, and after, the end of the text.
EOFToken == Token("EOF", NoneV)

(***************************************************************************)
(* The parser's view of the scanner.  toks is the sequence of tokens that  *)
(* successive calls of get_next_token return; a token of type "LexError"   *)
(* stands for a place where get_next_token panics instead of returning.    *)
(***************************************************************************)
current_token(toks, p) == IF p <= Len(toks) THEN toks[p] ELSE EOFToken

\* Parser::eat: the current token must have the expected type, and the next
\* token is fetched from the scanner (which may panic on it).
eat(toks, p, type) ==
    /\ current_token(toks, p).type = type
    /\ current_token(toks, p + 1).type # "LexError"

\* What a parsing function returns: a node and the position of the new
\* current token, or the fact that it panicked.
Parsed(node, p) == [ok |-> TRUE, node |-> node, pos |-> p]

ParsePanic == [ok |-> FALSE]

(***************************************************************************)
(* nodes.rs: the syntax tree                                               *)
(***************************************************************************)
NoOp == [kind |-> "NoOp"]

Var(token) == [kind |-> "Var", value |-> token.value]

Num(token) == [kind |-> "Num", value |-> token.value]

Str(token) == [kind |-> "Str", value |-> token.value]

Type(token) == [kind |-> "Type", token |-> token]

UnaryOp(op, e) == [kind |-> "UnaryOp", op |-> op, expr |-> e]

BinOp(left, op, right) ==
    [kind |-> "BinOp", left |-> left, op |-> op, right |-> right]

BoolExpr(left, op, right) ==
    [kind |-> "BoolExpr", left |-> left, op |-> op, right |-> right]

VarDecl(var_node, type_node) ==
    [kind |-> "VarDecl", var_node |-> var_node, type_node |-> type_node]

DeclAssign(left, type_node, op, right) ==
    [kind |-> "DeclAssign", left |-> left, type_node |-> type_node,
     op |-> op, right |-> right]

Assign(left, op, right) ==
    [kind |-> "Assign", left |-> left, op |-> op, right |-> right]

PrintVar(var_node) == [kind |-> "PrintVar", var_node |-> var_node]

PrintStr(value) == [kind |-> "PrintStr", value |-> value]

Read(var_node) == [kind |-> "Read", var_node |-> var_node]

IfStatement(b, statements, else_statements) ==
    [kind |-> "IfStatement", bool_expr |-> b, statements |-> statements,
     else_statements |-> else_statements]

ForLoop(var_node, start, end, statements) ==
    [kind |-> "ForLoop", var_node |-> var_node, start |-> start,
     end |-> end, statements |-> statements]

Program(children) == [kind |-> "Program", children |-> children]

(***************************************************************************)
(* parser.rs.  Every parsing function takes the position of the current    *)
(* token and returns Parsed(node, position) or ParsePanic.  A function     *)
(* that parses several parts in a row is written as a chain of operators,  *)
(* each of which receives what was parsed before it.                       *)
(***************************************************************************)
RECURSIVE factor(_, _), term_loop(_, _), expr_loop(_, _), expr(_, _),
          statement(_, _), statement_list_loop(_, _)

\* Parser::variable
variable(toks, p) ==
    IF eat(toks, p, "ID")
    THEN Parsed(Var(current_token(toks, p)), p + 1)
    ELSE ParsePanic

\* Parser::factor, the node of a sign and its operand
factor_unary(token, f) ==
    IF f.ok THEN Parsed(UnaryOp(token, f.node), f.pos) ELSE ParsePanic

\* Parser::factor, the closing parenthesis
factor_paren(toks, e) ==
    IF e.ok /\ eat(toks, e.pos, "RightParen")
    THEN Parsed(e.node, e.pos + 1)
    ELSE ParsePanic

\* Parser::factor
factor(toks, p) ==
    CASE current_token(toks, p).type \in {"Plus", "Minus"} ->
           IF eat(toks, p, current_token(toks, p).type)
           THEN factor_unary(current_token(toks, p), factor(toks, p + 1))
           ELSE ParsePanic
      [] current_token(toks, p).type = "Integer" ->
           IF eat(toks, p, "Integer")
           THEN Parsed(Num(current_token(toks, p)), p + 1)
           ELSE ParsePanic
      [] current_token(toks, p).type = "LeftParen" ->
           IF eat(toks, p, "LeftParen")
           THEN factor_paren(toks, expr(toks, p + 1))
           ELSE ParsePanic
      [] OTHER -> variable(toks, p)

\* The node that term and expr build from the node so far, an operator and
\* its right operand.
bin_op_node(left, token, right) ==
    IF right.ok
    THEN Parsed(BinOp(left, token, right.node), right.pos)
    ELSE ParsePanic

\* The while loop of Parser::term; node is what has been parsed so far.
term_loop(toks, node) ==
    IF ~node.ok
    THEN ParsePanic
    ELSE IF current_token(toks, node.pos).type \in {"Mul", "Div"}
         THEN IF eat(toks, node.pos, current_token(toks, node.pos).type)
              THEN term_loop(toks,
                             bin_op_node(node.node,
                                         current_token(toks, node.pos),
                                         factor(toks, node.pos + 1)))
              ELSE ParsePanic
         ELSE node

\* Parser::term
term(toks, p) == term_loop(toks, factor(toks, p))

\* expr_loop with the right operand parsed as a whole expression, which
\* groups operators of equal precedence from the right.
expr_loop_right(toks, node) ==
    IF ~node.ok
    THEN ParsePanic
    ELSE IF current_token(toks, node.pos).type \in {"Plus", "Minus"}
         THEN IF eat(toks, node.pos, current_token(toks, node.pos).type)
              THEN bin_op_node(node.node, current_token(toks, node.pos),
                               expr(toks, node.pos + 1))
              ELSE ParsePanic
         ELSE node

\* The while loop of Parser::expr; node is what has been parsed so far.
expr_loop(toks, node) ==
    IF ~node.ok
    THEN ParsePanic
    ELSE IF current_token(toks, node.pos).type \in {"Plus", "Minus"}
         THEN IF eat(toks, node.pos, current_token(toks, node.pos).type)
              THEN expr_loop(toks,
                             bin_op_node(node.node,
                                         current_token(toks, node.pos),
                                         term(toks, node.pos + 1)))
              ELSE ParsePanic
         ELSE node

\* Parser::expr
expr(toks, p) == expr_loop(toks, term(toks, p))

\* Parser::bool_expr, the node of `!` and its operand
bool_expr_not(token, right) ==
    IF right.ok
    THEN Parsed(BoolExpr(NoOp, token, right.node), right.pos)
    ELSE ParsePanic

\* Parser::bool_expr, the node of an operator and its two operands
bool_expr_node(left, token, right) ==
    IF right.ok
    THEN Parsed(BoolExpr(left, token, right.node), right.pos)
    ELSE ParsePanic

\* Parser::bool_expr, after its left operand
bool_expr_op(toks, left) ==
    IF ~left.ok
    THEN ParsePanic
    ELSE IF current_token(toks, left.pos).type \in {"LessThan", "Equal", "And"}
         THEN IF eat(toks, left.pos, current_token(toks, left.pos).type)
              THEN bool_expr_node(left.node, current_token(toks, left.pos),
                                  expr(toks, left.pos + 1))
              ELSE ParsePanic
         ELSE Parsed(BoolExpr(left.node, Token("Semi", NoneV), NoOp), left.pos)

\* Parser::bool_expr
bool_expr(toks, p) ==
    IF current_token(toks, p).type = "Not"
    THEN IF eat(toks, p, "Not")
         THEN bool_expr_not(current_token(toks, p), expr(toks, p + 1))
         ELSE ParsePanic
    ELSE bool_expr_op(toks, expr(toks, p))

\* Parser::empty
empty == NoOp

\* Parser::print_statement, the node of a printed variable
print_var_node(v) == IF v.ok THEN Parsed(PrintVar(v.node), v.pos) ELSE ParsePanic

\* Parser::print_statement
print_statement(toks, p) ==
    IF ~eat(toks, p, "Print")
    THEN ParsePanic
    ELSE CASE current_token(toks, p + 1).type = "ID" ->
                print_var_node(variable(toks, p + 1))
           [] current_token(toks, p + 1).type = "StringLiteral" ->
                IF eat(toks, p + 1, "StringLiteral")
                THEN Parsed(PrintStr(current_token(toks, p + 1).value), p + 2)
                ELSE ParsePanic
           [] OTHER -> ParsePanic

\* Parser::read_statement, the node of the variable read
read_node(v) == IF v.ok THEN Parsed(Read(v.node), v.pos) ELSE ParsePanic

\* Parser::read_statement
read_statement(toks, p) ==
    IF ~eat(toks, p, "Read")
    THEN ParsePanic
    ELSE IF current_token(toks, p + 1).type = "ID"
         THEN read_node(variable(toks, p + 1))
         ELSE ParsePanic

\* Parser::assignment_statement, the node
assignment_node(left, token, right) ==
    IF right.ok
    THEN Parsed(Assign(left, token, right.node), right.pos)
    ELSE ParsePanic

\* Parser::assignment_statement, after the variable
assignment_rest(toks, left) ==
    IF left.ok /\ eat(toks, left.pos, "Assign")
    THEN assignment_node(left.node, current_token(toks, left.pos),
                         expr(toks, left.pos + 1))
    ELSE ParsePanic

\* Parser::assignment_statement
assignment_statement(toks, p) == assignment_rest(toks, variable(toks, p))

\* The initializer of a declaration, by the declared type: an expression
\* for int, a string literal or an expression for string, a boolean
\* expression for bool.
initializer(toks, p, type) ==
    CASE type = "Integer" -> expr(toks, p)
      [] type = "Str" ->
           IF current_token(toks, p).type = "StringLiteral"
           THEN IF eat(toks, p, "StringLiteral")
                THEN Parsed(Str(current_token(toks, p)), p + 1)
                ELSE ParsePanic
           ELSE expr(toks, p)
      [] type = "Bool" -> bool_expr(toks, p)

\* The token after the type of a declaration without initializer.
DeclEndTokens == {"Semi"}

\* Parser::declaration_statement, the node of a declaration with initializer
decl_assign_node(var_node, type, token, right) ==
    IF right.ok
    THEN Parsed(DeclAssign(var_node, Type(type), token, right.node), right.pos)
    ELSE ParsePanic

\* Parser::declaration_statement, after the type; p is the position of the
\* token that follows the type.
declaration_rest(toks, var_node, type, p) ==
    CASE current_token(toks, p).type \in DeclEndTokens ->
           Parsed(VarDecl(var_node, Type(type)), p)
      [] current_token(toks, p).type = "Assign" ->
           IF eat(toks, p, "Assign")
           THEN decl_assign_node(var_node, type, current_token(toks, p),
                                 initializer(toks, p + 1, type.type))
           ELSE ParsePanic
      [] OTHER -> ParsePanic

\* Parser::declaration_statement, after the variable
declaration_type(toks, v) ==
    IF ~(v.ok /\ eat(toks, v.pos, "Colon"))
    THEN ParsePanic
    ELSE IF /\ current_token(toks, v.pos + 1).type \in {"Integer", "Str", "Bool"}
            /\ eat(toks, v.pos + 1, current_token(toks, v.pos + 1).type)
         THEN declaration_rest(toks, v.node, current_token(toks, v.pos + 1),
                               v.pos + 2)
         ELSE ParsePanic

\* Parser::declaration_statement
declaration_statement(toks, p) ==
    IF eat(toks, p, "Var")
    THEN declaration_type(toks, variable(toks, p + 1))
    ELSE ParsePanic

\* The push of a parsed statement onto the results of statement_list.
push(results, node) ==
    IF node.ok
    THEN Parsed(Append(results, node.node), node.pos)
    ELSE ParsePanic

\* Parser::statement_list
statement_list(toks, p) ==
    statement_list_loop(toks, push(<<>>, statement(toks, p)))

\* The node Parser::for_loop returns for a parsed body.
for_loop_node(var, start, end, statements) ==
    IF Len(statements) # 0
    THEN ForLoop(var, start, end, statements)
    ELSE NoOp

\* Parser::for_loop, after the body
for_loop_close(toks, var, start, end, statements) ==
    IF /\ statements.ok
       /\ eat(toks, statements.pos, "End")
       /\ eat(toks, statements.pos + 1, "For")
    THEN Parsed(for_loop_node(var, start, end, statements.node),
                statements.pos + 2)
    ELSE ParsePanic

\* Parser::for_loop, after the end expression
for_loop_body(toks, var, start, end) ==
    IF end.ok /\ eat(toks, end.pos, "Do")
    THEN for_loop_close(toks, var, start, end.node,
                        statement_list(toks, end.pos + 1))
    ELSE ParsePanic

\* Parser::for_loop, after the start expression
for_loop_end(toks, var, start) ==
    IF start.ok /\ eat(toks, start.pos, "To")
    THEN for_loop_body(toks, var, start.node, expr(toks, start.pos + 1))
    ELSE ParsePanic

\* Parser::for_loop, after the loop variable
for_loop_start(toks, var) ==
    IF var.ok /\ eat(toks, var.pos, "In")
    THEN for_loop_end(toks, var.node, expr(toks, var.pos + 1))
    ELSE ParsePanic

\* Parser::for_loop
for_loop(toks, p) ==
    IF eat(toks, p, "For")
    THEN for_loop_start(toks, variable(toks, p + 1))
    ELSE ParsePanic

\* Parser::if_statement, after the second statement list
if_statement_close(toks, b, statements, else_statements) ==
    IF /\ else_statements.ok
       /\ eat(toks, else_statements.pos, "End")
       /\ eat(toks, else_statements.pos + 1, "If")
    THEN Parsed(IfStatement(b, statements, else_statements.node),
                else_statements.pos + 2)
    ELSE ParsePanic

\* Parser::if_statement, after the first statement list: an `else` is eaten
\* if it is there, and a second statement list is parsed in either case.
if_statement_else(toks, b, statements) ==
    IF ~statements.ok
    THEN ParsePanic
    ELSE IF current_token(toks, statements.pos).type = "Else"
         THEN IF eat(toks, statements.pos, "Else")
              THEN if_statement_close(toks, b, statements.node,
                                      statement_list(toks, statements.pos + 1))
              ELSE ParsePanic
         ELSE if_statement_close(toks, b, statements.node,
                                 statement_list(toks, statements.pos))

\* Parser::if_statement, after the condition
if_statement_do(toks, b) ==
    IF b.ok /\ eat(toks, b.pos, "Do")
    THEN if_statement_else(toks, b.node, statement_list(toks, b.pos + 1))
    ELSE ParsePanic

\* Parser::if_statement
if_statement(toks, p) ==
    IF eat(toks, p, "If")
    THEN if_statement_do(toks, bool_expr(toks, p + 1))
    ELSE ParsePanic

\* Parser::statement
statement(toks, p) ==
    CASE current_token(toks, p).type = "ID" -> assignment_statement(toks, p)
      [] current_token(toks, p).type = "Var" -> declaration_statement(toks, p)
      [] current_token(toks, p).type = "Print" -> print_statement(toks, p)
      [] current_token(toks, p).type = "Read" -> read_statement(toks, p)
      [] current_token(toks, p).type = "For" -> for_loop(toks, p)
      [] current_token(toks, p).type = "If" -> if_statement(toks, p)
      [] OTHER -> Parsed(empty, p)

\* The while loop of Parser::statement_list and the check that follows it;
\* results is what has been parsed so far.
statement_list_loop(toks, results) ==
    IF ~results.ok
    THEN ParsePanic
    ELSE IF current_token(toks, results.pos).type = "Semi"
         THEN IF eat(toks, results.pos, "Semi")
              THEN statement_list_loop(toks,
                                       push(results.node,
                                            statement(toks, results.pos + 1)))
              ELSE ParsePanic
         ELSE IF current_token(toks, results.pos).type = "ID"
              THEN ParsePanic
              ELSE results

\* Parser::program
program(nodes) ==
    IF nodes.ok THEN Parsed(Program(nodes.node), nodes.pos) ELSE ParsePanic

\* A parse that does not look at the token after the program.
parse_end_unchecked(toks, node) == node

\* Parser::parse, after the program
parse_end(toks, node) ==
    IF node.ok /\ current_token(toks, node.pos).type = "EOF"
    THEN node
    ELSE ParsePanic

\* Parser::new, which fetches the first token, followed by Parser::parse.
parse(toks) ==
    IF current_token(toks, 1).type = "LexError"
    THEN ParsePanic
    ELSE parse_end(toks, program(statement_list(toks, 1)))

(***************************************************************************)
(* Text and 32-bit arithmetic as the interpreter uses them                 *)
(***************************************************************************)
UpperLetters ==
    <<"A", "B", "C", "D", "E", "F", "G", "H", "I", "J", "K", "L", "M",
      "N", "O", "P", "Q", "R", "S", "T", "U", "V", "W", "X", "Y", "Z">>

LowerLetters ==
    <<"a", "b", "c", "d", "e", "f", "g", "h", "i", "j", "k", "l", "m",
      "n", "o", "p", "q", "r", "s", "t", "u", "v", "w", "x", "y", "z">>

Digits == <<"0", "1", "2", "3", "4", "5", "6", "7", "8", "9">>

\* char::to_lowercase on the characters that occur in names.
LowerChar(c) ==
    IF \E k \in 1..26 : UpperLetters[k] = c
    THEN LowerLetters[CHOOSE k \in 1..26 : UpperLetters[k] = c]
    ELSE c

\* String::to_lowercase
to_lowercase(s) == [k \in 1..Len(s) |-> LowerChar(s[k])]

I32Max == 2147483647

I32Min == -I32Max - 1

IsDigit(c) == \E k \in 1..10 : Digits[k] = c

DigitValue(c) == (CHOOSE k \in 1..10 : Digits[k] = c) - 1

\* The digits of n >= 0, most significant first.
RECURSIVE NatToString(_)
NatToString(n) ==
    IF n < 10
    THEN <<Digits[n + 1]>>
    ELSE Append(NatToString(n \div 10), Digits[(n % 10) + 1])

\* i32::to_string
RECURSIVE NegDigits(_)
NegDigits(n) ==
    \* the digits of -n for n <= 0, without negating n
    IF n > -10
    THEN <<Digits[1 - n]>>
    ELSE LET q == IF n % 10 = 0 THEN n \div 10 ELSE (n \div 10) + 1
         IN  Append(NegDigits(q), Digits[1 + (q * 10 - n)])

i32_to_string(n) == IF n >= 0 THEN NatToString(n) ELSE <<"-">> \o NegDigits(n)

\* bool::to_string
bool_to_string(b) ==
    IF b THEN <<"t", "r", "u", "e">> ELSE <<"f", "a", "l", "s", "e">>

\* Whether the digits ds, read as a decimal number and negated when neg,
\* stay within i32; acc is the value read so far (negative when neg).
RECURSIVE DigitsFit(_, _, _)
DigitsFit(ds, acc, neg) ==
    IF ds = <<>>
    THEN TRUE
    ELSE LET d == DigitValue(Head(ds))
         IN  IF neg
             THEN /\ acc >= (I32Min + d) \div 10 + (IF (I32Min + d) % 10 = 0
                                                   THEN 0 ELSE 1)
                  /\ DigitsFit(Tail(ds), acc * 10 - d, neg)
             ELSE /\ acc <= (I32Max - d) \div 10
                  /\ DigitsFit(Tail(ds), acc * 10 + d, neg)

\* str::parse::<i32>().is_ok(): an optional sign, then one or more digits,
\* and a value that fits.
parse_i32_is_ok(s) ==
    LET signed == s # <<>> /\ Head(s) \in {"+", "-"}
        ds == IF signed THEN Tail(s) ELSE s
    IN  /\ ds # <<>>
        /\ \A k \in 1..Len(ds) : IsDigit(ds[k])
        /\ DigitsFit(ds, 0, signed /\ Head(s) = "-")

AddOverflows(n, m) ==
    \/ m > 0 /\ n > I32Max - m
    \/ m < 0 /\ n < I32Min - m

\* i32::wrapping_add, computed without leaving the 32-bit range.
wrapping_add(n, m) ==
    IF ~AddOverflows(n, m)
    THEN n + m
    ELSE IF m > 0
         THEN (n - I32Max - 1) + (m - I32Max - 1)
         ELSE (n + I32Max + 1) + (m + I32Max + 1)

SubOverflows(n, m) ==
    \/ m < 0 /\ n > I32Max + m
    \/ m > 0 /\ n < I32Min + m

\* i32::wrapping_sub
wrapping_sub(n, m) ==
    IF ~SubOverflows(n, m)
    THEN n - m
    ELSE IF m < 0
         THEN (n - I32Max - 1) - (m + I32Max + 1)
         ELSE (n + I32Max + 1) - (m - I32Max - 1)

\* Whether a * b, for a, b >= 1, exceeds limit = I32Max (sign 1) or
\* I32Max + 1 (sign -1).
MagnitudeOverflows(a, b, sign) ==
    IF sign = 1
    THEN a > I32Max \div b
    ELSE a - 1 > (I32Max - (b - 1)) \div b

Abs(n) == IF n < 0 THEN -n ELSE n

MulOverflows(n, m) ==
    CASE n = 0 \/ m = 0 -> FALSE
      [] n = 1 \/ m = 1 -> FALSE
      [] n = -1 -> m = I32Min
      [] m = -1 -> n = I32Min
      [] n = I32Min \/ m = I32Min -> TRUE
      [] OTHER -> MagnitudeOverflows(Abs(n), Abs(m),
                                     IF (n < 0) = (m < 0) THEN 1 ELSE -1)

\* i32::wrapping_mul by doubling, for m >= 0.
RECURSIVE WrappingMulNat(_, _)
WrappingMulNat(n, m) ==
    IF m = 0
    THEN 0
    ELSE LET h == WrappingMulNat(wrapping_add(n, n), m \div 2)
         IN  IF m % 2 = 1 THEN wrapping_add(h, n) ELSE h

wrapping_mul(n, m) ==
    IF m >= 0
    THEN WrappingMulNat(n, m)
    ELSE IF m = I32Min
         THEN IF n % 2 = 0 THEN 0 ELSE I32Min
         ELSE wrapping_sub(0, WrappingMulNat(n, -m))

\* The quotient of n / m rounded toward zero, for m > 0.
TruncDivPos(n, m) ==
    IF n >= 0 \/ n % m = 0 THEN n \div m ELSE (n \div m) + 1

\* i32 division, for m # 0 and not (n = I32Min and m = -1).
i32_div(n, m) ==
    IF m > 0
    THEN TruncDivPos(n, m)
    ELSE IF m = I32Min
         THEN IF n = I32Min THEN 1 ELSE 0
         ELSE -TruncDivPos(n, -m)

(***************************************************************************)
(* interpreter.rs: expressions.  gs is the global table, a function from   *)
(* its keys to Values; oc tells whether the build checks arithmetic        *)
(* overflow (it panics) or not (the result wraps).  A visit returns a      *)
(* Value, or PanicV when it panics.                                        *)
(***************************************************************************)
PanicV == [tag |-> "Panic"]

\* A key that keeps the spelling of the name.
key_exact(name) == name

\* The key under which a name is stored and looked up.
key_of(name) == to_lowercase(name)

\* A lookup that yields zero for a name without entry.
visit_var_default(var, gs) ==
    IF var.value.tag # "String"
    THEN PanicV
    ELSE IF key_of(var.value.s) \in DOMAIN gs
         THEN gs[key_of(var.value.s)]
         ELSE NumberV(0)

\* Interpreter::visit_var
visit_var(var, gs) ==
    IF var.value.tag # "String"
    THEN PanicV
    ELSE IF key_of(var.value.s) \in DOMAIN gs
         THEN gs[key_of(var.value.s)]
         ELSE PanicV

\* Interpreter::visit_num
visit_num(num) == IF num.value.tag = "Number" THEN num.value ELSE PanicV

\* Interpreter::visit_str
visit_str(str_node) ==
    IF str_node.value.tag = "String" THEN str_node.value ELSE PanicV

\* The arithmetic of visit_bin_op on two Numbers.
number_op(type, n, m, oc) ==
    CASE type = "Plus" ->
           IF AddOverflows(n, m)
           THEN IF oc THEN PanicV ELSE NumberV(wrapping_add(n, m))
           ELSE NumberV(n + m)
      [] type = "Minus" ->
           IF SubOverflows(n, m)
           THEN IF oc THEN PanicV ELSE NumberV(wrapping_sub(n, m))
           ELSE NumberV(n - m)
      [] type = "Mul" ->
           IF MulOverflows(n, m)
           THEN IF oc THEN PanicV ELSE NumberV(wrapping_mul(n, m))
           ELSE NumberV(n * m)
      [] type = "Div" ->
           IF m = 0 \/ (n = I32Min /\ m = -1)
           THEN PanicV
           ELSE NumberV(i32_div(n, m))
      [] OTHER -> PanicV

\* A concatenation that puts the right string first.
string_op_reversed(type, s, t) ==
    IF type = "Plus" THEN StringV(t \o s) ELSE PanicV

\* The concatenation of visit_bin_op on two Strings.
string_op(type, s, t) ==
    IF type = "Plus" THEN StringV(s \o t) ELSE PanicV

\* The match of visit_bin_op on the two operand values.
bin_op_result(type, left, right, oc) ==
    CASE left.tag = "Number" /\ right.tag = "Number" ->
           number_op(type, left.n, right.n, oc)
      [] left.tag = "String" /\ right.tag = "String" ->
           string_op(type, left.s, right.s)
      [] OTHER -> PanicV

RECURSIVE visit(_, _, _)

\* The value of an operand is bound once, as the element of a singleton, so
\* that the operand is visited a single time however often its value is
\* used.
\* Interpreter::visit_bin_op, once the left operand is visited
visit_bin_op_right(bin_op, left, gs, oc) ==
    IF left.tag = "Panic"
    THEN PanicV
    ELSE CHOOSE result \in
           {IF right.tag = "Panic"
            THEN PanicV
            ELSE bin_op_result(bin_op.op.type, left, right, oc) :
              right \in {visit(bin_op.right, gs, oc)}} : TRUE

\* Interpreter::visit_bin_op
visit_bin_op(bin_op, gs, oc) ==
    CHOOSE result \in
      {visit_bin_op_right(bin_op, left, gs, oc) :
         left \in {visit(bin_op.left, gs, oc)}} : TRUE

\* Interpreter::visit_unary_op, once the operand is visited
unary_op_result(type, e, oc) ==
    IF e.tag # "Number"
    THEN PanicV
    ELSE CASE type = "Plus" -> number_op("Plus", 0, e.n, oc)
           [] type = "Minus" -> number_op("Minus", 0, e.n, oc)
           [] OTHER -> PanicV

\* Interpreter::visit_unary_op
visit_unary_op(unary_op, gs, oc) ==
    CHOOSE result \in
      {unary_op_result(unary_op.op.type, e, oc) :
         e \in {visit(unary_op.expr, gs, oc)}} : TRUE

\* A conjunction that yields false on a false left operand whatever the
\* right operand is.
and_short_circuit(left, right) ==
    IF left.tag = "Boolean" /\ ~left.b
    THEN BooleanV(FALSE)
    ELSE IF left.tag = "Boolean" /\ right.tag = "Boolean"
         THEN BooleanV(right.b)
         ELSE PanicV

\* The conjunction visit_bool_expr computes for And, from both operands.
and_result(left, right) ==
    IF left.tag = "Boolean" /\ right.tag = "Boolean"
    THEN BooleanV(left.b /\ right.b)
    ELSE PanicV

\* Interpreter::visit_bool_expr
visit_bool_expr(b, gs, oc) ==
    CASE b.op.type = "And" ->
           LET left == visit(b.left, gs, oc)
           IN  IF left.tag # "Boolean"
               THEN PanicV
               ELSE and_result(left, visit(b.right, gs, oc))
      [] b.op.type = "Semi" ->
           LET left == visit(b.left, gs, oc)
           IN  IF left.tag = "Boolean" THEN left ELSE PanicV
      [] b.op.type = "Not" ->
           LET right == visit(b.right, gs, oc)
           IN  IF right.tag = "Boolean" THEN BooleanV(~right.b) ELSE PanicV
      [] OTHER ->
           LET left == visit(b.left, gs, oc)
           IN  IF left.tag # "Number"
               THEN PanicV
               ELSE LET right == visit(b.right, gs, oc)
                    IN  IF right.tag # "Number"
                        THEN PanicV
                        ELSE CASE b.op.type = "Equal" ->
                                    BooleanV(left.n = right.n)
                               [] b.op.type = "LessThan" ->
                                    BooleanV(left.n < right.n)
                               [] OTHER -> PanicV

\* Interpreter::visit, on the nodes that occur in expressions.
visit(node, gs, oc) ==
    CASE node.kind = "BinOp" -> visit_bin_op(node, gs, oc)
      [] node.kind = "UnaryOp" -> visit_unary_op(node, gs, oc)
      [] node.kind = "Num" -> visit_num(node)
      [] node.kind = "Str" -> visit_str(node)
      [] node.kind = "NoOp" -> NoneV
      [] node.kind = "BoolExpr" -> visit_bool_expr(node, gs, oc)
      [] node.kind = "Var" -> visit_var(node, gs)

\* An insertion that keeps the value of a key that has an entry.
insert_if_absent(gs, key, value) ==
    [k \in DOMAIN gs \cup {key} |->
       IF k = key /\ k \notin DOMAIN gs THEN value ELSE gs[k]]

\* HashMap::insert
insert(gs, key, value) ==
    [k \in DOMAIN gs \cup {key} |-> IF k = key THEN value ELSE gs[k]]

(***************************************************************************)
(* scanner.rs: the tokens get_next_token returns                           *)
(***************************************************************************)
\* The operators and the punctuation.
Punct(type) ==
    CASE type = "Not" -> Token(type, CharV("!"))
      [] type = "And" -> Token(type, CharV("&"))
      [] type = "Equal" -> Token(type, CharV("="))
      [] type = "LessThan" -> Token(type, CharV("<"))
      [] type = "Plus" -> Token(type, CharV("+"))
      [] type = "Minus" -> Token(type, CharV("-"))
      [] type = "Mul" -> Token(type, CharV("*"))
      [] type = "Div" -> Token(type, CharV("/"))
      [] type = "LeftParen" -> Token(type, CharV("("))
      [] type = "RightParen" -> Token(type, CharV(")"))
      [] type = "Assign" -> Token(type, StringV(<<":", "=">>))
      [] type = "Colon" -> Token(type, CharV(":"))
      [] type = "Semi" -> Token(type, CharV(";"))
      [] type = "To" -> Token(type, StringV(<<".", ".">>))

\* RESERVED_KEYWORDS
Keyword(type) ==
    CASE type = "Bool" -> Token(type, StringV(<<"b", "o", "o", "l">>))
      [] type = "Var" -> Token(type, StringV(<<"v", "a", "r">>))
      [] type = "Integer" -> Token(type, StringV(<<"i", "n", "t">>))
      [] type = "Str" -> Token(type, StringV(<<"s", "t", "r", "i", "n", "g">>))
      [] type = "Print" -> Token(type, StringV(<<"p", "r", "i", "n", "t">>))
      [] type = "Read" -> Token(type, StringV(<<"r", "e", "a", "d">>))
      [] type = "If" -> Token(type, StringV(<<"i", "f">>))
      [] type = "Else" -> Token(type, StringV(<<"e", "l", "s", "e">>))
      [] type = "Do" -> Token(type, StringV(<<"d", "o">>))
      [] type = "For" -> Token(type, StringV(<<"f", "o", "r">>))
      [] type = "End" -> Token(type, StringV(<<"e", "n", "d">>))
      [] type = "In" -> Token(type, StringV(<<"i", "n">>))

\* An identifier, an integer literal, a string literal.
IdToken(name) == Token("ID", StringV(name))

IntegerToken(n) == Token("Integer", NumberV(n))

StringLiteralToken(s) == Token("StringLiteral", StringV(s))

\* A place in the text where the scanner panics (Scanner::error).
LexError == Token("LexError", NoneV)

(***************************************************************************)
(* scanner.rs: the scanner on the characters of a source text.  A text is  *)
(* a sequence of characters; pos is the scanner's pos plus one.            *)
(***************************************************************************)
\* The token and the position after it, or the panic of the scanner.
Scanned(token, pos) == [ok |-> TRUE, token |-> token, pos |-> pos]

ScanPanic == [ok |-> FALSE]

\* Scanner::peek reads the character after the current one and panics, out
\* of bounds, when there is none.
peek_panics(text, pos) == pos + 1 > Len(text)

peek(text, pos) == text[pos + 1]

is_whitespace(c) == c \in {" ", "\n", "\t", "\r"}

is_alphanumeric(c) ==
    \/ IsDigit(c)
    \/ \E k \in 1..26 : UpperLetters[k] = c \/ LowerLetters[k] = c

\* Scanner::skip_whitespace
RECURSIVE skip_whitespace(_, _)
skip_whitespace(text, pos) ==
    IF pos <= Len(text) /\ is_whitespace(text[pos])
    THEN skip_whitespace(text, pos + 1)
    ELSE pos

\* The end of the run of digits that Scanner::integer collects.
RECURSIVE integer_end(_, _)
integer_end(text, pos) ==
    IF pos <= Len(text) /\ IsDigit(text[pos])
    THEN integer_end(text, pos + 1)
    ELSE pos

RECURSIVE digits_value(_)
digits_value(ds) ==
    IF ds = <<>>
    THEN 0
    ELSE digits_value(SubSeq(ds, 1, Len(ds) - 1)) * 10
           + DigitValue(ds[Len(ds)])

\* result.parse().unwrap() in Scanner::integer
integer_token(ds, pos) ==
    IF parse_i32_is_ok(ds)
    THEN Scanned(IntegerToken(digits_value(ds)), pos)
    ELSE ScanPanic

\* Scanner::integer
integer(text, pos) ==
    integer_token(SubSeq(text, pos, integer_end(text, pos) - 1),
                  integer_end(text, pos))

\* The loop of Scanner::string_literal, with the payload collected so far.
\* After a backslash the scanner advances to the escaped character, pushes
\* what peek returns, and advances again.
RECURSIVE string_literal_loop(_, _, _)
string_literal_loop(text, pos, result) ==
    IF pos > Len(text)
    THEN Scanned(EOFToken, pos)
    ELSE IF text[pos] \in {"\n", ";"}
         THEN ScanPanic
         ELSE IF text[pos] = "\\"
              THEN IF peek_panics(text, pos + 1)
                   THEN ScanPanic
                   ELSE string_literal_loop(text, pos + 2,
                                            Append(result, peek(text, pos + 1)))
              ELSE IF text[pos] = "\""
                   THEN Scanned(StringLiteralToken(result), pos + 1)
                   ELSE string_literal_loop(text, pos + 1,
                                            Append(result, text[pos]))

\* Scanner::string_literal, called at the opening quote.
string_literal(text, pos) == string_literal_loop(text, pos + 1, <<>>)

\* The check of get_next_token on what string_literal returned.
string_token(scanned) ==
    IF scanned.ok /\ scanned.token.type = "StringLiteral"
    THEN scanned
    ELSE ScanPanic

\* The end of the run of characters that Scanner::id collects.
RECURSIVE id_end(_, _)
id_end(text, pos) ==
    IF pos <= Len(text) /\ (is_alphanumeric(text[pos]) \/ text[pos] = "_")
    THEN id_end(text, pos + 1)
    ELSE pos

KeywordTypes ==
    {"Bool", "Var", "Integer", "Str", "Print", "Read", "If", "Else", "Do",
     "For", "End", "In"}

\* RESERVED_KEYWORDS.get(result).map_or(...)
id_token(result) ==
    IF \E type \in KeywordTypes : Keyword(type).value.s = result
    THEN Keyword(CHOOSE type \in KeywordTypes : Keyword(type).value.s = result)
    ELSE IdToken(result)

\* Scanner::id
id(text, pos) ==
    Scanned(id_token(SubSeq(text, pos, id_end(text, pos) - 1)),
            id_end(text, pos))

\* Scanner::skip_comment on `//`: up to the end of the line or of the text.
RECURSIVE line_comment_end(_, _)
line_comment_end(text, pos) ==
    IF pos > Len(text) \/ text[pos] = "\n"
    THEN pos
    ELSE line_comment_end(text, pos + 1)

\* Scanner::skip_comment on `/*`: up to the position after `*/` or the end
\* of the text; 0 when the peek after a `*` panics.
RECURSIVE block_comment_end(_, _)
block_comment_end(text, pos) ==
    IF pos > Len(text)
    THEN pos
    ELSE IF text[pos] = "*"
         THEN IF peek_panics(text, pos)
              THEN 0
              ELSE IF peek(text, pos) = "/"
                   THEN pos + 2
                   ELSE block_comment_end(text, pos + 1)
         ELSE block_comment_end(text, pos + 1)

\* Scanner::skip_comment, called at the first `/`.
skip_comment(text, pos) ==
    IF text[pos + 1] = "/"
    THEN line_comment_end(text, pos + 2)
    ELSE block_comment_end(text, pos + 2)

\* The characters that are a token of their own.
SingleCharTypes ==
    {"Not", "And", "Equal", "LessThan", "Plus", "Minus", "Mul", "LeftParen",
     "RightParen", "Semi"}

is_single_char(c) == \E type \in SingleCharTypes : Punct(type).value = CharV(c)

single_char(c) ==
    Punct(CHOOSE type \in SingleCharTypes : Punct(type).value = CharV(c))

\* The arm of get_next_token for a character with a peek: `:`, `.`, `/`.
\* A comment is skipped and the scan goes on after it.
RECURSIVE get_next_token(_, _)
after_comment(text, pos) ==
    IF pos = 0 THEN ScanPanic ELSE get_next_token(text, pos)

peeking_token(text, pos) ==
    IF peek_panics(text, pos)
    THEN ScanPanic
    ELSE CASE text[pos] = ":" ->
                IF peek(text, pos) = "="
                THEN Scanned(Punct("Assign"), pos + 2)
                ELSE Scanned(Punct("Colon"), pos + 1)
           [] text[pos] = "." ->
                IF peek(text, pos) = "."
                THEN Scanned(Punct("To"), pos + 2)
                ELSE ScanPanic
           [] text[pos] = "/" ->
                IF peek(text, pos) \in {"/", "*"}
                THEN after_comment(text, skip_comment(text, pos))
                ELSE Scanned(Punct("Div"), pos + 1)

\* Scanner::get_next_token
get_next_token(text, pos) ==
    IF pos > Len(text)
    THEN Scanned(EOFToken, pos)
    ELSE IF is_whitespace(text[pos])
         THEN get_next_token(text, skip_whitespace(text, pos))
         ELSE IF IsDigit(text[pos])
              THEN integer(text, pos)
              ELSE IF is_single_char(text[pos])
                   THEN Scanned(single_char(text[pos]), pos + 1)
                   ELSE IF text[pos] \in {":", ".", "/"}
                        THEN peeking_token(text, pos)
                        ELSE IF text[pos] = "\""
                             THEN string_token(string_literal(text, pos))
                             ELSE IF is_alphanumeric(text[pos])
                                       \/ text[pos] = "_"
                                  THEN id(text, pos)
                                  ELSE ScanPanic

\* The tokens that successive calls of get_next_token return, up to the end
\* of the text or to the call that panics.
RECURSIVE scan_from(_, _, _)
scan_next(text, scanned, acc) ==
    IF ~scanned.ok
    THEN Append(acc, LexError)
    ELSE IF scanned.token.type = "EOF"
         THEN acc
         ELSE scan_from(text, scanned.pos, Append(acc, scanned.token))

scan_from(text, pos, acc) == scan_next(text, get_next_token(text, pos), acc)

scan(text) == scan_from(text, 1, <<>>)

(***************************************************************************)
(* The run of Interpreter::interpret as a state machine                    *)
(***************************************************************************)
VARIABLES
    text,             \* the characters of the source text, when it is given
    tokens,           \* the tokens of the source text, as the scanner yields them
    stdin,            \* the lines of standard input not read yet
    overflow_checks,  \* whether the build checks arithmetic overflow
    status,           \* "text", "new", "running", "done" or "panic"
    stack,            \* the statement lists being executed, innermost last
    global_scope,     \* Interpreter::global_scope
    output,           \* the lines written to standard output
    trace             \* history: what the run has done so far

vars ==
    <<text, tokens, stdin, overflow_checks, status, stack, global_scope,
      output, trace>>

\* The statement list of visit_program, of one branch of visit_if_statement,
\* or of the body of visit_for_loop, with the index of its next statement.
ProgramFrame(children) == [kind |-> "Program", stmts |-> children, pc |-> 1]

IfFrame(statements) == [kind |-> "If", stmts |-> statements, pc |-> 1]

\* The frame of a loop whose range yields one value at most.
ForFrameSingle(var_name, start, end, statements) ==
    [kind |-> "For", stmts |-> statements, pc |-> Len(statements) + 1,
     var_name |-> var_name, next |-> start,
     end |-> IF start < end THEN start + 1 ELSE end]

\* A for-loop's frame starts past the end of its body: the range is asked
\* for its next value before each execution of the body.
ForFrame(var_name, start, end, statements) ==
    [kind |-> "For", stmts |-> statements, pc |-> Len(statements) + 1,
     var_name |-> var_name, next |-> start, end |-> end]

Top == stack[Len(stack)]

AtEnd == Top.pc > Len(Top.stmts)

Current == Top.stmts[Top.pc]

\* The interpreter is about to visit a statement of the given kind.
At(kind) ==
    /\ status = "running"
    /\ ~AtEnd
    /\ Current.kind = kind

\* The stack once the current statement has returned.
Returned(stk) == [stk EXCEPT ![Len(stk)].pc = @ + 1]

Visited(node) == Append(trace, [ev |-> "visit", d |-> Len(stack), node |-> node])

\* An error that is skipped: the run goes on with the next statement.
PanicSkipped ==
    /\ stack' = Returned(stack)
    /\ UNCHANGED <<status, global_scope, output>>

\* A panic unwinds the whole run: nothing is executed after it.
Panic ==
    /\ status' = "panic"
    /\ UNCHANGED <<stack, global_scope, output>>

\* Scanner::new and the calls of get_next_token: the text becomes the
\* tokens the parser is given.
Scan ==
    /\ status = "text"
    /\ tokens' = scan(text)
    /\ status' = "new"
    /\ UNCHANGED <<text, stdin, overflow_checks, stack, global_scope, output,
                   trace>>

\* Interpreter::interpret: the parse that precedes the evaluation.
Interpret ==
    /\ status = "new"
    /\ LET tree == parse(tokens)
       IN  IF tree.ok
           THEN /\ status' = "running"
                /\ stack' = <<ProgramFrame(tree.node.children)>>
           ELSE /\ status' = "panic"
                /\ UNCHANGED stack
    /\ UNCHANGED <<text, tokens, stdin, overflow_checks, global_scope, output, trace>>

\* Interpreter::visit on Node::NoOp
VisitNoOp ==
    /\ At("NoOp")
    /\ stack' = Returned(stack)
    /\ trace' = Visited(Current)
    /\ UNCHANGED <<text, tokens, stdin, overflow_checks, status, global_scope, output>>

\* Defaults with false for a boolean.
default_false(type) ==
    CASE type = "Str" -> StringV(<<>>)
      [] type = "Integer" -> NumberV(0)
      [] type = "Bool" -> BooleanV(FALSE)

\* The value visit_var_decl stores for a declared type.
default_value(type) ==
    CASE type = "Str" -> StringV(<<>>)
      [] type = "Integer" -> NumberV(0)
      [] type = "Bool" -> BooleanV(TRUE)

\* Interpreter::visit_var_decl
VisitVarDecl ==
    /\ At("VarDecl")
    /\ LET var_decl == Current
       IN  IF /\ var_decl.var_node.value.tag = "String"
              /\ var_decl.type_node.token.type \in {"Str", "Integer", "Bool"}
           THEN /\ global_scope' =
                     insert(global_scope, key_of(var_decl.var_node.value.s),
                            default_value(var_decl.type_node.token.type))
                /\ stack' = Returned(stack)
                /\ UNCHANGED <<status, output>>
           ELSE Panic
    /\ trace' = Visited(Current)
    /\ UNCHANGED <<text, tokens, stdin, overflow_checks>>

\* Interpreter::visit_decl_assign
VisitDeclAssign ==
    /\ At("DeclAssign")
    /\ LET decl_assign == Current
           value == visit(decl_assign.right, global_scope, overflow_checks)
       IN  IF decl_assign.left.value.tag = "String" /\ value.tag # "Panic"
           THEN /\ global_scope' =
                     insert(global_scope, key_of(decl_assign.left.value.s),
                            value)
                /\ stack' = Returned(stack)
                /\ UNCHANGED <<status, output>>
           ELSE Panic
    /\ trace' = Visited(Current)
    /\ UNCHANGED <<text, tokens, stdin, overflow_checks>>

\* An assignment that accepts any pair of values.
any_variant(left, right) == TRUE

\* The match of visit_assign on the stored and the new value.
same_variant(left, right) ==
    \/ left.tag = "Number" /\ right.tag = "Number"
    \/ left.tag = "String" /\ right.tag = "String"
    \/ left.tag = "Boolean" /\ right.tag = "Boolean"

\* Interpreter::visit_assign
VisitAssign ==
    /\ At("Assign")
    /\ LET assign == Current
           left == visit_var(assign.left, global_scope)
           right == IF left.tag = "Panic"
                    THEN PanicV
                    ELSE visit(assign.right, global_scope, overflow_checks)
       IN  IF right.tag # "Panic" /\ same_variant(left, right)
           THEN /\ global_scope' =
                     insert(global_scope, key_of(assign.left.value.s), right)
                /\ stack' = Returned(stack)
                /\ UNCHANGED <<status, output>>
           ELSE Panic
    /\ trace' = Visited(Current)
    /\ UNCHANGED <<text, tokens, stdin, overflow_checks>>

\* The text visit_print_var prints for a value, or PanicV.
printed(value) ==
    CASE value.tag = "Number" -> StringV(i32_to_string(value.n))
      [] value.tag = "String" -> value
      [] value.tag = "Boolean" -> StringV(bool_to_string(value.b))
      [] OTHER -> PanicV

\* Interpreter::visit_print_var
VisitPrintVar ==
    /\ At("PrintVar")
    /\ LET var_value == printed(visit_var(Current.var_node, global_scope))
       IN  IF var_value.tag # "Panic"
           THEN /\ output' = Append(output, var_value.s)
                /\ stack' = Returned(stack)
                /\ UNCHANGED <<status, global_scope>>
           ELSE Panic
    /\ trace' = Visited(Current)
    /\ UNCHANGED <<text, tokens, stdin, overflow_checks>>

\* Interpreter::visit_print_str
VisitPrintStr ==
    /\ At("PrintStr")
    /\ IF Current.value.tag = "String"
       THEN /\ output' = Append(output, Current.value.s)
            /\ stack' = Returned(stack)
            /\ UNCHANGED <<status, global_scope>>
       ELSE Panic
    /\ trace' = Visited(Current)
    /\ UNCHANGED <<text, tokens, stdin, overflow_checks>>

\* Stdin::read_line: the next line with its line end, or nothing at the end
\* of the input.
read_line(in) == IF in = <<>> THEN <<>> ELSE Head(in)

\* The removal of one trailing newline in visit_read.
pop_newline(input) ==
    IF input # <<>> /\ input[Len(input)] = "\n"
    THEN SubSeq(input, 1, Len(input) - 1)
    ELSE input

\* A read that stores the integer a numeric line stands for.
read_value_parsed(var_value, input) ==
    CASE var_value.tag = "String" -> StringV(input)
      [] var_value.tag = "Number" ->
           IF parse_i32_is_ok(input)
           THEN NumberV(IF Head(input) = "-"
                        THEN 0 - digits_value(Tail(input))
                        ELSE IF Head(input) = "+"
                             THEN digits_value(Tail(input))
                             ELSE digits_value(input))
           ELSE PanicV
      [] OTHER -> PanicV

\* What visit_read stores for the line read, given the value the variable
\* holds (PanicV when it holds none), or PanicV.
read_value(var_value, input) ==
    CASE var_value.tag = "String" -> StringV(input)
      [] var_value.tag = "Number" ->
           IF parse_i32_is_ok(input) THEN StringV(input) ELSE PanicV
      [] OTHER -> PanicV

\* Interpreter::visit_read
VisitRead ==
    /\ At("Read")
    /\ LET read == Current
           input == pop_newline(read_line(stdin))
           value == read_value(visit_var(read.var_node, global_scope), input)
       IN  IF value.tag # "Panic"
           THEN /\ global_scope' =
                     insert(global_scope, key_of(read.var_node.value.s), value)
                /\ stack' = Returned(stack)
                /\ UNCHANGED <<status, output>>
           ELSE Panic
    /\ stdin' = IF stdin = <<>> THEN stdin ELSE Tail(stdin)
    /\ trace' = Visited(Current)
    /\ UNCHANGED <<text, tokens, overflow_checks>>

\* A loop variable that is not validated.
loop_variable_unchecked(var_value) == TRUE

\* The check of the loop variable at the start of visit_for_loop.
loop_variable_ok(var_value) == var_value.tag = "Number"

\* Interpreter::visit_for_loop, up to the start of the iteration.
VisitForLoop ==
    /\ At("ForLoop")
    /\ LET loop == Current
           var == visit_var(loop.var_node, global_scope)
           start == IF loop_variable_ok(var)
                    THEN visit(loop.start, global_scope, overflow_checks)
                    ELSE PanicV
           end == IF start.tag = "Number"
                  THEN visit(loop.end, global_scope, overflow_checks)
                  ELSE PanicV
       IN  IF end.tag = "Number"
           THEN /\ stack' = Append(stack,
                                   ForFrame(loop.var_node.value.s,
                                            start.n, end.n,
                                            loop.statements))
                /\ trace' = Visited(Current)
                              \o <<[ev |-> "for", d |-> Len(stack) + 1,
                                    start |-> start.n, end |-> end.n]>>
                /\ UNCHANGED <<status, global_scope, output>>
           ELSE /\ Panic
                /\ trace' = Visited(Current)
    /\ UNCHANGED <<text, tokens, stdin, overflow_checks>>

\* A range that includes its end.
range_inclusive(next, end) == next <= end

\* Whether the range next..end of a for-loop yields another value.
range_has_next(next, end) == next < end

\* One step of the for of visit_for_loop: the range yields its next value,
\* which is stored under the loop variable before the body is executed.
ForIterate ==
    /\ status = "running"
    /\ Top.kind = "For"
    /\ AtEnd
    /\ range_has_next(Top.next, Top.end)
    /\ global_scope' =
         insert(global_scope, key_of(Top.var_name), NumberV(Top.next))
    /\ stack' = [stack EXCEPT ![Len(stack)].pc = 1,
                              ![Len(stack)].next = @ + 1]
    /\ trace' = Append(trace, [ev |-> "iter", d |-> Len(stack),
                               i |-> Top.next])
    /\ UNCHANGED <<text, tokens, stdin, overflow_checks, status, output>>

\* The range of a for-loop is exhausted: visit_for_loop returns.
ForExit ==
    /\ status = "running"
    /\ Top.kind = "For"
    /\ AtEnd
    /\ ~range_has_next(Top.next, Top.end)
    /\ stack' = Returned(SubSeq(stack, 1, Len(stack) - 1))
    /\ trace' = Append(trace, [ev |-> "exit", d |-> Len(stack)])
    /\ UNCHANGED <<text, tokens, stdin, overflow_checks, status, global_scope,
                   output>>

\* Both statement lists, one after the other.
branch_both(node, boolean) == node.statements \o node.else_statements

\* The statement list visit_if_statement executes for a condition.
branch(node, boolean) ==
    IF boolean THEN node.statements ELSE node.else_statements

\* Interpreter::visit_if_statement, up to the execution of the branch.
VisitIfStatement ==
    /\ At("IfStatement")
    /\ LET boolean == visit(Current.bool_expr, global_scope, overflow_checks)
       IN  IF boolean.tag = "Boolean"
           THEN /\ stack' = Append(stack, IfFrame(branch(Current, boolean.b)))
                /\ trace' = Visited(Current)
                              \o <<[ev |-> "if", d |-> Len(stack) + 1,
                                    cond |-> boolean.b]>>
                /\ UNCHANGED <<status, global_scope, output>>
           ELSE /\ Panic
                /\ trace' = Visited(Current)
    /\ UNCHANGED <<text, tokens, stdin, overflow_checks>>

\* The branch of an if-statement is done: visit_if_statement returns.
IfExit ==
    /\ status = "running"
    /\ Top.kind = "If"
    /\ AtEnd
    /\ stack' = Returned(SubSeq(stack, 1, Len(stack) - 1))
    /\ trace' = Append(trace, [ev |-> "exit", d |-> Len(stack)])
    /\ UNCHANGED <<text, tokens, stdin, overflow_checks, status, global_scope,
                   output>>

\* visit_program has visited every child: interpret returns.
ProgramExit ==
    /\ status = "running"
    /\ Top.kind = "Program"
    /\ AtEnd
    /\ status' = "done"
    /\ UNCHANGED <<text, tokens, stdin, overflow_checks, stack, global_scope,
                   output, trace>>

Next ==
    \/ Scan
    \/ Interpret
    \/ VisitNoOp
    \/ VisitVarDecl
    \/ VisitDeclAssign
    \/ VisitAssign
    \/ VisitPrintVar
    \/ VisitPrintStr
    \/ VisitRead
    \/ VisitForLoop
    \/ ForIterate
    \/ ForExit
    \/ VisitIfStatement
    \/ IfExit
    \/ ProgramExit

(***************************************************************************)
(* Source programs, written as the token sequences the scanner yields for  *)
(* them.  These are the inputs of the model.                               *)
(***************************************************************************)
Semi == <<Punct("Semi")>>

\* var <name> : <type>
SrcDecl(name, type) ==
    <<Keyword("Var"), IdToken(name), Punct("Colon"), Keyword(type)>>

\* var <name> : <type> := <init>
SrcDeclAssign(name, type, init) ==
    SrcDecl(name, type) \o <<Punct("Assign")>> \o init

\* <name> := <e>
SrcAssign(name, e) == <<IdToken(name), Punct("Assign")>> \o e

SrcPrintVar(name) == <<Keyword("Print"), IdToken(name)>>

SrcPrintStr(s) == <<Keyword("Print"), StringLiteralToken(s)>>

SrcRead(name) == <<Keyword("Read"), IdToken(name)>>

\* for <name> in <s> .. <e> do <body> end for
SrcFor(name, s, e, body) ==
    <<Keyword("For"), IdToken(name), Keyword("In")>> \o s \o <<Punct("To")>>
      \o e \o <<Keyword("Do")>> \o body \o <<Keyword("End"), Keyword("For")>>

\* if <cond> do <then> else <else> end if
SrcIfElse(cond, then, else) ==
    <<Keyword("If")>> \o cond \o <<Keyword("Do")>> \o then
      \o <<Keyword("Else")>> \o else \o <<Keyword("End"), Keyword("If")>>

\* if <cond> do <then> end if
SrcIf(cond, then) ==
    <<Keyword("If")>> \o cond \o <<Keyword("Do")>> \o then
      \o <<Keyword("End"), Keyword("If")>>

\* The statements of a sequence, separated by `;`.
RECURSIVE SrcList(_)
SrcList(statements) ==
    IF Len(statements) = 0
    THEN <<>>
    ELSE IF Len(statements) = 1
         THEN statements[1]
         ELSE statements[1] \o Semi \o SrcList(Tail(statements))

SrcId(name) == <<IdToken(name)>>

SrcInt(n) == <<IntegerToken(n)>>

\* The longest initializer expression that is enumerated, in tokens.
MaxExprLen == 5

ExprAtoms == {IntegerToken(7), IdToken(<<"a">>)}

UnaryOps == {Punct("Plus"), Punct("Minus")}

BinaryOps == {Punct("Plus"), Punct("Minus"), Punct("Mul"), Punct("Div")}

\* Every well-formed arithmetic expression of exactly n tokens over the
\* atoms: E ::= atom | (+|-) E | E (+|-|*|/) E | ( E ).
RECURSIVE ExprsOfLen(_)
ExprsOfLen(n) ==
    IF n < 1
    THEN {}
    ELSE IF n = 1
         THEN {<<a>> : a \in ExprAtoms}
         ELSE {<<u>> \o e : u \in UnaryOps, e \in ExprsOfLen(n - 1)}
                \cup {<<Punct("LeftParen")>> \o e \o <<Punct("RightParen")>> :
                        e \in ExprsOfLen(n - 2)}
                \cup UNION {{l \o <<o>> \o r :
                               o \in BinaryOps, l \in ExprsOfLen(k),
                               r \in ExprsOfLen(n - 1 - k)} :
                            k \in 1..(n - 2)}

Exprs == UNION {ExprsOfLen(n) : n \in 1..MaxExprLen}

\* var A : int := 3; var b : int := <e>
ArithPrograms ==
    {SrcList(<<SrcDeclAssign(<<"A">>, "Integer", SrcInt(3)),
               SrcDeclAssign(<<"b">>, "Integer", e)>>) : e \in Exprs}

\* The program of the test variables_and_arithmetic.
TestProgram ==
    SrcList(<<SrcDeclAssign(<<"a">>, "Integer", SrcInt(2)),
              SrcDeclAssign(<<"b">>, "Integer",
                            <<IntegerToken(10), Punct("Mul"), IdToken(<<"a">>),
                              Punct("Plus"), IntegerToken(10)>>),
              SrcDeclAssign(<<"c">>, "Integer",
                            <<IdToken(<<"a">>), Punct("Minus"), Punct("Minus"),
                              IdToken(<<"b">>)>>)>>) \o Semi

\* The largest literal bound of an enumerated for-loop.
MaxRange == 2

RangeLiterals == {SrcInt(k) : k \in 0..MaxRange}

SrcPlus(l, r) == l \o <<Punct("Plus")>> \o r

SrcMinus(l, r) == l \o <<Punct("Minus")>> \o r

SrcLess(l, r) == l \o <<Punct("LessThan")>> \o r

SrcEqual(l, r) == l \o <<Punct("Equal")>> \o r

SrcAnd(l, r) == l \o <<Punct("And")>> \o r

SrcNot(r) == <<Punct("Not")>> \o r

SrcParen(e) == <<Punct("LeftParen")>> \o e \o <<Punct("RightParen")>>

\* Bodies of for-loops over i: they print, assign the loop variable or the
\* variable n a bound may name, nest a loop or a branch, end in `;`, or fail.
ForBodies ==
    {SrcPrintVar(<<"i">>),
     SrcList(<<SrcPrintVar(<<"i">>),
               SrcAssign(<<"n">>, SrcPlus(SrcId(<<"n">>), SrcId(<<"i">>)))>>),
     SrcList(<<SrcAssign(<<"i">>, SrcPlus(SrcId(<<"i">>), SrcInt(1))),
               SrcPrintVar(<<"i">>)>>),
     SrcList(<<SrcAssign(<<"n">>, SrcPlus(SrcId(<<"n">>), SrcInt(1))),
               SrcPrintVar(<<"n">>)>>),
     SrcPrintVar(<<"i">>) \o Semi,
     SrcFor(<<"j">>, SrcInt(0), SrcId(<<"i">>), SrcPrintVar(<<"j">>)),
     SrcIfElse(SrcLess(SrcId(<<"i">>), SrcInt(1)),
               SrcPrintStr(<<"l", "o">>), SrcPrintStr(<<"h", "i">>)),
     SrcList(<<SrcPrintVar(<<"i">>), SrcPrintVar(<<"x">>),
               SrcPrintStr(<<"n", "o">>)>>)}

\* var i : int; var j : int; var n : int := 2;
\* for i in <s> .. <e> do <body> end for; print i
ForPrograms ==
    {SrcList(<<SrcDecl(<<"i">>, "Integer"), SrcDecl(<<"j">>, "Integer"),
               SrcDeclAssign(<<"n">>, "Integer", SrcInt(2)),
               SrcFor(<<"i">>, s, e, body), SrcPrintVar(<<"i">>)>>) :
       s \in RangeLiterals \cup {<<Punct("Minus"), IntegerToken(1)>>},
       e \in RangeLiterals \cup {SrcId(<<"n">>)},
       body \in ForBodies}

\* What precedes an enumerated loop without body: nothing, so that the loop
\* variable i is undeclared, or the declaration of i as integer or string.
LoopPreludes ==
    {<<>>,
     SrcDeclAssign(<<"i">>, "Integer", SrcInt(5)) \o Semi,
     SrcDecl(<<"i">>, "Str") \o Semi}

LoopSuffixes == {<<>>, Semi \o SrcPrintVar(<<"i">>)}

\* <prelude> for i in <s> .. <e> do <body> end for <suffix>
EmptyLoopProgram(prelude, s, e, body, suffix) ==
    prelude \o SrcFor(<<"i">>, s, e, body) \o suffix

\* Loops without a body, or with a body of `;` alone.
EmptyLoopPrograms ==
    {EmptyLoopProgram(prelude, s, e, body, suffix) :
       prelude \in LoopPreludes, s \in RangeLiterals, e \in RangeLiterals,
       body \in {<<>>, Semi}, suffix \in LoopSuffixes}

\* Statements that refer to the name x (or X), which is never declared.
UndeclaredUses(x) ==
    {SrcPrintVar(x),
     SrcAssign(x, SrcInt(1)),
     SrcRead(x),
     SrcDeclAssign(<<"z">>, "Integer", SrcPlus(SrcId(x), SrcInt(1))),
     SrcDeclAssign(<<"z">>, "Integer", SrcPlus(SrcInt(1), SrcId(x))),
     SrcDeclAssign(<<"z">>, "Str", SrcId(x)),
     SrcDeclAssign(<<"z">>, "Bool", SrcLess(SrcInt(1), SrcId(x))),
     SrcDeclAssign(<<"z">>, "Bool", SrcNot(SrcId(x))),
     SrcDeclAssign(<<"z">>, "Bool", SrcId(x)),
     SrcAssign(<<"y">>, SrcId(x)),
     SrcFor(x, SrcInt(0), SrcInt(1), SrcPrintStr(<<"b">>)),
     SrcFor(<<"y">>, SrcId(x), SrcInt(1), SrcPrintStr(<<"b">>)),
     SrcFor(<<"y">>, SrcInt(0), SrcId(x), SrcPrintStr(<<"b">>)),
     SrcIf(SrcId(x), SrcPrintStr(<<"b">>)),
     SrcIf(SrcEqual(SrcId(x), SrcInt(1)), SrcPrintStr(<<"b">>))}

\* [var y : int := 1; print y;] <use of x>; print "after"
UndeclaredPrograms ==
    {prelude \o use \o Semi \o SrcPrintStr(<<"a", "f", "t", "e", "r">>) :
       prelude \in {<<>>,
                    SrcList(<<SrcDeclAssign(<<"y">>, "Integer", SrcInt(1)),
                              SrcPrintVar(<<"y">>)>>) \o Semi},
       use \in UndeclaredUses(<<"x">>) \cup UndeclaredUses(<<"X">>)}

\* One name in three spellings that differ only in letter case.
CaseNames == {<<"n", "b">>, <<"N", "b">>, <<"N", "B">>}

\* Programs that declare a name in one spelling and use it in others.
CasePrograms ==
    UNION {{SrcList(<<SrcDecl(n1, "Integer"), SrcAssign(n2, SrcInt(7)),
                      SrcPrintVar(n3)>>),
            SrcList(<<SrcDecl(n1, "Str"), SrcRead(n2), SrcPrintVar(n3)>>),
            SrcList(<<SrcDeclAssign(n1, "Integer", SrcInt(1)),
                      SrcDeclAssign(n2, "Integer", SrcPlus(SrcId(n3), SrcInt(1))),
                      SrcDecl(<<"m">>, "Integer")>>),
            SrcList(<<SrcDecl(n1, "Integer"),
                      SrcFor(n2, SrcInt(0), SrcInt(2), SrcPrintVar(n3))>>),
            SrcList(<<SrcDeclAssign(n1, "Integer", SrcInt(7)),
                      SrcDecl(n2, "Str"), SrcPrintVar(n3)>>)} :
           n1 \in CaseNames, n2 \in CaseNames, n3 \in CaseNames}

\* Conditions over an integer a, a true t and a false f; the last five are
\* no boolean, or refer to the undeclared u.
IfConditions ==
    {SrcLess(SrcId(<<"a">>), SrcInt(1)),
     SrcEqual(SrcId(<<"a">>), SrcInt(1)),
     SrcNot(SrcId(<<"f">>)),
     SrcNot(SrcId(<<"t">>)),
     SrcAnd(SrcId(<<"t">>), SrcId(<<"f">>)),
     SrcAnd(SrcId(<<"t">>), SrcId(<<"t">>)),
     SrcId(<<"t">>),
     SrcId(<<"f">>),
     SrcId(<<"a">>),
     SrcNot(SrcId(<<"a">>)),
     SrcAnd(SrcId(<<"f">>), SrcId(<<"a">>)),
     SrcLess(SrcId(<<"t">>), SrcId(<<"a">>)),
     SrcAnd(SrcId(<<"f">>), SrcId(<<"u">>))}

\* If-statements on a condition: with and without else, with branches that
\* assign, fail, end in `;` or lack the `;` between two statements.
IfStatements(cond) ==
    {SrcIfElse(cond, SrcPrintStr(<<"t">>), SrcPrintStr(<<"e">>)),
     SrcIfElse(cond,
               SrcList(<<SrcPrintStr(<<"t">>), SrcAssign(<<"a">>, SrcInt(5))>>),
               SrcList(<<SrcAssign(<<"a">>, SrcInt(6)), SrcPrintVar(<<"a">>)>>)),
     SrcIfElse(cond,
               SrcList(<<SrcPrintStr(<<"t">>), SrcPrintVar(<<"x">>),
                         SrcPrintStr(<<"n", "o">>)>>),
               SrcPrintStr(<<"e">>) \o Semi),
     SrcIf(cond, SrcPrintStr(<<"t">>)),
     SrcIf(cond, SrcList(<<SrcPrintStr(<<"t">>), SrcPrintStr(<<"u">>)>>)),
     SrcIf(cond, SrcPrintStr(<<"t">>) \o SrcPrintStr(<<"u">>)),
     SrcIfElse(cond, SrcIf(SrcId(<<"f">>), SrcPrintStr(<<"t">>)),
               SrcIfElse(SrcId(<<"t">>), SrcPrintStr(<<"e">>),
                         SrcPrintStr(<<"n", "o">>)))}

\* var a : int := <0 or 1>; var t : bool; var f : bool := a < 0;
\* <if-statement>; print "z"
IfPrograms ==
    {SrcList(<<SrcDeclAssign(<<"a">>, "Integer", SrcInt(k)),
               SrcDecl(<<"t">>, "Bool"),
               SrcDeclAssign(<<"f">>, "Bool", SrcLess(SrcId(<<"a">>), SrcInt(0))),
               statement_text, SrcPrintStr(<<"z">>)>>) :
       k \in 0..1,
       statement_text \in UNION {IfStatements(cond) : cond \in IfConditions}}

DeclTypes == {"Integer", "Str", "Bool"}

\* An initializer of the declared type.
SrcInit(type) ==
    CASE type = "Integer" -> SrcInt(7)
      [] type = "Str" -> <<StringLiteralToken(<<"a", "b">>)>>
      [] type = "Bool" -> SrcLess(SrcInt(1), SrcInt(0))

\* Declarations without initializer: of a fresh name, and of a name that
\* holds a value of the same or of another type, in the same or another
\* spelling.
DeclPrograms ==
    {SrcList(<<SrcDecl(<<"x">>, type), SrcPrintVar(<<"x">>)>>) :
       type \in DeclTypes}
      \cup {SrcList(<<SrcDeclAssign(<<"x">>, old, SrcInit(old)),
                      SrcPrintVar(<<"x">>), SrcDecl(name, type),
                      SrcPrintVar(<<"x">>)>>) :
              old \in DeclTypes, type \in DeclTypes,
              name \in {<<"x">>, <<"X">>}}
      \cup {SrcList(<<SrcDecl(<<"x">>, old), SrcAssign(<<"x">>, SrcInit(old)),
                      SrcDecl(<<"x">>, type), SrcDecl(<<"y">>, type),
                      SrcAssign(<<"x">>, SrcId(<<"y">>))>>) :
              old \in DeclTypes, type \in DeclTypes}
      \cup {SrcList(<<SrcDeclAssign(<<"x">>, old, SrcInit(old)),
                      SrcDeclAssign(<<"y">>, type, SrcId(<<"x">>)),
                      SrcPrintVar(<<"y">>)>>) :
              old \in DeclTypes, type \in DeclTypes}

\* Expressions with `+` over the strings s = "ab" and t = "c", the integer
\* n and the boolean b.
StringExprs ==
    {SrcPlus(SrcId(<<"s">>), SrcId(<<"t">>)),
     SrcPlus(SrcId(<<"t">>), SrcId(<<"s">>)),
     SrcPlus(SrcPlus(SrcId(<<"s">>), SrcId(<<"t">>)), SrcId(<<"s">>)),
     SrcPlus(SrcParen(SrcPlus(SrcId(<<"s">>), SrcId(<<"t">>))), SrcId(<<"s">>)),
     SrcPlus(SrcId(<<"s">>), SrcParen(SrcPlus(SrcId(<<"t">>), SrcId(<<"s">>)))),
     SrcPlus(SrcId(<<"s">>), <<StringLiteralToken(<<>>)>>),
     SrcPlus(<<StringLiteralToken(<<"7">>)>>, <<StringLiteralToken(<<"1">>)>>),
     SrcPlus(SrcId(<<"s">>), SrcId(<<"n">>)),
     SrcPlus(SrcId(<<"n">>), SrcId(<<"s">>)),
     SrcPlus(SrcId(<<"s">>), SrcInt(7)),
     SrcPlus(SrcId(<<"s">>), SrcId(<<"b">>)),
     SrcPlus(SrcId(<<"b">>), SrcId(<<"s">>)),
     SrcPlus(SrcPlus(SrcId(<<"s">>), SrcId(<<"t">>)), SrcId(<<"n">>)),
     SrcPlus(SrcPlus(SrcId(<<"n">>), SrcId(<<"n">>)), SrcId(<<"s">>)),
     SrcPlus(SrcId(<<"b">>), SrcId(<<"b">>)),
     SrcMinus(SrcId(<<"s">>), SrcId(<<"t">>)),
     <<Punct("Minus")>> \o SrcId(<<"s">>)}

\* var s : string := "ab"; var t : string := "c"; var n : int := 7;
\* var b : bool; print "go"; var u : string := <e>; print u
StringProgram(e) ==
    SrcList(<<SrcDeclAssign(<<"s">>, "Str", <<StringLiteralToken(<<"a", "b">>)>>),
              SrcDeclAssign(<<"t">>, "Str", <<StringLiteralToken(<<"c">>)>>),
              SrcDeclAssign(<<"n">>, "Integer", SrcInt(7)),
              SrcDecl(<<"b">>, "Bool"), SrcPrintStr(<<"g", "o">>),
              SrcDeclAssign(<<"u">>, "Str", e), SrcPrintVar(<<"u">>)>>)

StringPrograms == {StringProgram(e) : e \in StringExprs}

SrcStr(chars) == <<StringLiteralToken(chars)>>

\* Statements whose evaluation can fail: division by zero, overflow, a
\* value of the wrong type, an unreadable or missing line of input.
FailingStatements ==
    {SrcDeclAssign(<<"z">>, "Integer",
                   <<IntegerToken(7), Punct("Div")>>
                     \o SrcParen(SrcMinus(SrcId(<<"n">>), SrcInt(1)))),
     SrcDeclAssign(<<"z">>, "Integer", SrcPlus(SrcInt(I32Max), SrcId(<<"n">>))),
     SrcDeclAssign(<<"z">>, "Integer",
                   <<IntegerToken(I32Max), Punct("Mul"), IntegerToken(7)>>),
     SrcDeclAssign(<<"z">>, "Integer",
                   SrcMinus(SrcMinus(<<Punct("Minus")>> \o SrcInt(I32Max),
                                     SrcId(<<"n">>)), SrcId(<<"n">>))),
     SrcAssign(<<"n">>, SrcStr(<<"s">>)),
     SrcAssign(<<"n">>, SrcPlus(SrcId(<<"n">>), SrcStr(<<"s">>))),
     SrcRead(<<"n">>),
     SrcDeclAssign(<<"z">>, "Bool", SrcLess(SrcId(<<"n">>), SrcStr(<<"s">>))),
     SrcDeclAssign(<<"z">>, "Bool", SrcAnd(SrcStr(<<"s">>), SrcStr(<<"s">>))),
     SrcDeclAssign(<<"z">>, "Bool", SrcId(<<"n">>)),
     SrcDeclAssign(<<"z">>, "Integer", <<Punct("Minus")>> \o SrcStr(<<"s">>)),
     SrcFor(<<"n">>, SrcStr(<<"s">>), SrcInt(2), SrcPrintStr(<<"c">>)),
     SrcFor(<<"n">>, SrcInt(0), SrcStr(<<"s">>), SrcPrintStr(<<"c">>)),
     SrcIf(SrcId(<<"n">>), SrcPrintStr(<<"c">>))}

\* var n : int := 1; print "a"; <statement>; print "b"; n := 2
ErrorPrograms ==
    {SrcList(<<SrcDeclAssign(<<"n">>, "Integer", SrcInt(1)),
               SrcPrintStr(<<"a">>), statement_text, SrcPrintStr(<<"b">>),
               SrcAssign(<<"n">>, SrcInt(2))>>) :
       statement_text \in FailingStatements}

\* A declaration without initializer, with and without the `;` after it,
\* as the last statement of a program, of a loop body and of a branch.
DeclLast(type, end) ==
    {SrcDecl(<<"x">>, type) \o end,
     SrcList(<<SrcPrintStr(<<"a">>), SrcDecl(<<"x">>, type)>>) \o end,
     SrcList(<<SrcDecl(<<"i">>, "Integer"),
               SrcFor(<<"i">>, SrcInt(0), SrcInt(1),
                      SrcDecl(<<"x">>, type) \o end)>>),
     SrcList(<<SrcDecl(<<"t">>, "Bool"),
               SrcIf(SrcId(<<"t">>), SrcDecl(<<"x">>, type) \o end)>>),
     SrcList(<<SrcDecl(<<"t">>, "Bool"),
               SrcIfElse(SrcId(<<"t">>), SrcDecl(<<"x">>, type) \o end,
                         SrcPrintStr(<<"e">>))>>),
     SrcList(<<SrcDecl(<<"t">>, "Bool"),
               SrcIfElse(SrcNot(SrcId(<<"t">>)), SrcPrintStr(<<"t">>),
                         SrcDecl(<<"x">>, type) \o end)>>)}

\* The programs in which no `;` follows the last declaration.
DeclNoSemiPrograms == UNION {DeclLast(type, <<>>) : type \in DeclTypes}

DeclSemiPrograms == UNION {DeclLast(type, Semi) : type \in DeclTypes}

\* What precedes a read of n: its declaration as integer, string or boolean,
\* or nothing.
ReadPreludes ==
    {SrcDecl(<<"n">>, "Integer") \o Semi,
     SrcDeclAssign(<<"n">>, "Integer", SrcInt(5)) \o Semi,
     SrcDecl(<<"n">>, "Str") \o Semi,
     SrcDecl(<<"n">>, "Bool") \o Semi}

\* Uses of n as an integer: in arithmetic, as the target of an assignment
\* of an integer, and as a loop variable.
IntegerUses ==
    {SrcAssign(<<"n">>, SrcPlus(SrcId(<<"n">>), SrcInt(1))),
     SrcDeclAssign(<<"m">>, "Integer", SrcMinus(SrcId(<<"n">>), SrcInt(1))),
     SrcAssign(<<"n">>, SrcInt(7)),
     SrcFor(<<"n">>, SrcInt(0), SrcInt(1), SrcPrintStr(<<"b">>))}

\* Uses of n that do not need an integer.
OtherUses ==
    {SrcPrintVar(<<"n">>),
     SrcAssign(<<"n">>, SrcStr(<<"t">>)),
     SrcRead(<<"n">>)}

ReadProgram(prelude, use) ==
    prelude \o SrcRead(<<"N">>) \o Semi \o use

\* <prelude> read N; <use>
ReadPrograms ==
    {ReadProgram(prelude, use) :
       prelude \in ReadPreludes, use \in IntegerUses \cup OtherUses}

\* The right-hand sides of the assignments to x: the variable y, an integer
\* and a string literal, a sum and an undeclared name.
AssignedExprs ==
    {SrcId(<<"y">>), SrcInt(3), SrcStr(<<"t">>),
     SrcPlus(SrcId(<<"y">>), SrcId(<<"y">>)), SrcId(<<"u">>)}

\* var x : <t1> := <init>; var y : <t2> := <init>; X := <e>; print x
AssignPrograms ==
    {SrcList(<<SrcDeclAssign(<<"x">>, t1, SrcInit(t1)),
               SrcDeclAssign(<<"y">>, t2, SrcInit(t2)),
               SrcAssign(<<"X">>, e), SrcPrintVar(<<"x">>)>>) :
       t1 \in DeclTypes, t2 \in DeclTypes, e \in AssignedExprs}

\* The operands of a conjunction: the booleans p (true) and q (false), the
\* integer n and the undeclared u.
AndOperands == {<<"p">>, <<"q">>, <<"n">>, <<"u">>}

\* var p : bool := 0 < 1; var q : bool := 1 < 0; var n : int := 1;
\* if <l> & <r> do print "t" else print "e" end if; print "z"
AndProgram(l, r) ==
    SrcList(<<SrcDeclAssign(<<"p">>, "Bool", SrcLess(SrcInt(0), SrcInt(1))),
              SrcDeclAssign(<<"q">>, "Bool", SrcLess(SrcInt(1), SrcInt(0))),
              SrcDeclAssign(<<"n">>, "Integer", SrcInt(1)),
              SrcIfElse(SrcAnd(SrcId(l), SrcId(r)),
                        SrcPrintStr(<<"t">>), SrcPrintStr(<<"e">>)),
              SrcPrintStr(<<"z">>)>>)

AndPrograms == {AndProgram(l, r) : l \in AndOperands, r \in AndOperands}

\* var s : string; var x : int := s; print x
StoreOfString ==
    SrcList(<<SrcDecl(<<"s">>, "Str"),
              SrcDeclAssign(<<"x">>, "Integer", SrcId(<<"s">>)),
              SrcPrintVar(<<"x">>)>>)

\* var x : int := 7; var X : string := "t"; print x
Redeclaration ==
    SrcList(<<SrcDeclAssign(<<"x">>, "Integer", SrcInt(7)),
              SrcDeclAssign(<<"X">>, "Str", <<StringLiteralToken(<<"t">>)>>),
              SrcPrintVar(<<"x">>)>>)

\* var x : <old> := <init>; var x : <type> := <init>; print x
StorePrograms ==
    {StoreOfString, Redeclaration}
      \cup {SrcList(<<SrcDeclAssign(<<"x">>, old, SrcInit(old)),
                      SrcDeclAssign(<<"x">>, type, SrcInit(type)),
                      SrcPrintVar(<<"x">>)>>) :
              old \in DeclTypes, type \in DeclTypes}

\* var n : int := 1; print "a"; read n
WellFormedPrefix ==
    SrcList(<<SrcDeclAssign(<<"n">>, "Integer", SrcInt(1)),
              SrcPrintStr(<<"a">>), SrcRead(<<"n">>)>>)

\* What makes a program ill-formed after its last well-formed statement: a
\* print without operand, a declaration without colon, a closing
\* parenthesis, a name, an if-statement without its end, an assignment
\* without right-hand side, and a character that starts no token.
ErrorSuffixes ==
    {Semi \o <<Keyword("Print")>>,
     Semi \o <<Keyword("Var"), IdToken(<<"x">>), Keyword("Integer")>>,
     <<Punct("RightParen")>>,
     <<IdToken(<<"x">>)>>,
     Semi \o <<Keyword("If"), IdToken(<<"n">>), Keyword("Do")>>
          \o SrcPrintStr(<<"b">>),
     Semi \o <<IdToken(<<"n">>), Punct("Assign")>>,
     Semi \o <<LexError>>,
     <<LexError>>}

\* var n : int := 1; print "a"; read n <suffix>
SyntaxErrorPrograms == {WellFormedPrefix \o suffix : suffix \in ErrorSuffixes}

Programs ==
    ArithPrograms \cup {TestProgram} \cup ForPrograms \cup EmptyLoopPrograms
      \cup UndeclaredPrograms \cup CasePrograms \cup IfPrograms
      \cup DeclPrograms \cup StringPrograms \cup ErrorPrograms
      \cup DeclNoSemiPrograms \cup DeclSemiPrograms \cup ReadPrograms
      \cup AssignPrograms \cup AndPrograms \cup StorePrograms
      \cup SyntaxErrorPrograms \cup {WellFormedPrefix}

\* The input lines offered to a program that reads.
\* The longest body of an enumerated string literal, in characters.
MaxLiteralLen == 3

\* The characters of the enumerated literals: two letters, the backslash,
\* the quote and the semicolon.
LiteralChars == {"a", "b", "\\", "\"", ";"}

RECURSIVE CharSeqs(_, _)
CharSeqs(chars, n) ==
    IF n = 0
    THEN {<<>>}
    ELSE {Append(cs, c) : cs \in CharSeqs(chars, n - 1), c \in chars}

LiteralBodies == UNION {CharSeqs(LiteralChars, n) : n \in 0..MaxLiteralLen}

\* print "<body>"<rest>
LiteralText(body, rest) ==
    <<"p", "r", "i", "n", "t", " ", "\"">> \o body \o <<"\"">> \o rest

\* What follows the literal: nothing, or `; print "z"`.
LiteralRests ==
    {<<>>, <<";", " ", "p", "r", "i", "n", "t", " ", "\"", "z", "\"">>}

\* What follows the first statement when the text ends in a lexical error:
\* `; print "z` without closing quote, and `; print $`.
ErrorRests ==
    {<<";", " ", "p", "r", "i", "n", "t", " ", "\"", "z">>,
     <<";", " ", "p", "r", "i", "n", "t", " ", "$">>}

ErrorTexts == {LiteralText(<<"a">>, rest) : rest \in ErrorRests}

\* Literals with a newline in them, closed by a quote on the next line, and
\* literals that no quote closes: `print "a;b`, `print "a` before a newline,
\* and `print "ab`.
NewlineTexts ==
    {LiteralText(<<"a", "\n", "b">>, rest) : rest \in LiteralRests}
      \cup {LiteralText(<<"\n">>, <<>>)}

UnterminatedTexts ==
    {<<"p", "r", "i", "n", "t", " ", "\"">> \o body :
       body \in {<<"a", ";", "b">>, <<"a", "\n">>, <<"a", "b">>, <<";">>}}

Texts ==
    {LiteralText(body, rest) : body \in LiteralBodies, rest \in LiteralRests}
      \cup ErrorTexts \cup NewlineTexts \cup UnterminatedTexts

StdinChoices ==
    {<<>>,
     <<(<<"7", "\n">>)>>,
     <<(<<"x", "\n">>)>>,
     <<(<<"-", "3">>)>>,
     <<(<<"7", "\r", "\n">>)>>,
     <<(<<"4", "2", "\n">>), (<<"y", "\n">>)>>}

\* Whether the text has a literal on which the arithmetic can overflow.
HasBigLiteral(toks) ==
    \E k \in 1..Len(toks) : toks[k] = IntegerToken(I32Max)

HasRead(toks) == \E k \in 1..Len(toks) : toks[k].type = "Read"

\* A run starts from the tokens of a program, or from the characters of a
\* text that is still to be scanned.
Init ==
    /\ \/ /\ tokens \in Programs
          /\ text = <<>>
          /\ status = "new"
       \/ /\ tokens = <<>>
          /\ text \in Texts
          /\ status = "text"
    /\ stdin \in (IF HasRead(tokens) THEN StdinChoices ELSE {<<>>})
    /\ overflow_checks \in (IF HasBigLiteral(tokens) THEN BOOLEAN ELSE {TRUE})
    /\ stack = <<>>
    /\ global_scope = <<>>
    /\ output = <<>>
    /\ trace = <<>>

Spec == Init /\ [][Next]_vars

\* The steps of the evaluation of a parsed program.
Evaluate ==
    \/ VisitNoOp
    \/ VisitVarDecl
    \/ VisitDeclAssign
    \/ VisitAssign
    \/ VisitPrintVar
    \/ VisitPrintStr
    \/ VisitRead
    \/ VisitForLoop
    \/ ForIterate
    \/ ForExit
    \/ VisitIfStatement
    \/ IfExit
    \/ ProgramExit

\* The evaluation runs on one thread without suspension other than the
\* read of a line: a step of the evaluation that can be taken is taken.
FairSpec == Spec /\ WF_vars(Evaluate)

(***************************************************************************)
(* Reference arithmetic, defined on the text of an expression and not on   *)
(* a syntax tree: an expression is split at its last binary `+` or `-`     *)
(* outside parentheses, else at its last binary `*` or `/` outside         *)
(* parentheses, else it is a signed factor, a parenthesised expression or  *)
(* an atom.  A result is a Number, or RefUndefined.                        *)
(***************************************************************************)
RefUndefined == [tag |-> "Undefined"]

CountOf(toks, type, k) == Cardinality({j \in 1..(k - 1) : toks[j].type = type})

\* The number of parentheses open before position k.
ParenDepth(toks, k) ==
    CountOf(toks, "LeftParen", k) - CountOf(toks, "RightParen", k)

\* The positions of the binary operators of the given types outside
\* parentheses: an operator is binary when an operand ends before it.
BinaryAt(toks, types) ==
    {k \in 2..(Len(toks) - 1) :
       /\ toks[k].type \in types
       /\ toks[k - 1].type \in {"Integer", "ID", "RightParen"}
       /\ ParenDepth(toks, k) = 0}

Maximum(S) == CHOOSE k \in S : \A j \in S : j <= k

InI32(n) == I32Min <= n /\ n <= I32Max

\* n / m rounded toward zero, by magnitudes.
RefQuotient(n, m) ==
    IF (n < 0) = (m < 0)
    THEN Abs(n) \div Abs(m)
    ELSE -(Abs(n) \div Abs(m))

RefApply(type, l, r) ==
    IF l.tag # "Number" \/ r.tag # "Number"
    THEN RefUndefined
    ELSE CASE type = "Plus" ->
                IF AddOverflows(l.n, r.n) THEN RefUndefined
                ELSE NumberV(l.n + r.n)
           [] type = "Minus" ->
                IF SubOverflows(l.n, r.n) THEN RefUndefined
                ELSE NumberV(l.n - r.n)
           [] type = "Mul" ->
                IF MulOverflows(l.n, r.n) THEN RefUndefined
                ELSE NumberV(l.n * r.n)
           [] type = "Div" ->
                IF r.n = 0 \/ l.n = I32Min \/ r.n = I32Min THEN RefUndefined
                ELSE NumberV(RefQuotient(l.n, r.n))

RefAtom(token, env) ==
    CASE token.type = "Integer" /\ token.value.tag = "Number" -> token.value
      [] token.type = "ID" /\ to_lowercase(token.value.s) \in DOMAIN env ->
           env[to_lowercase(token.value.s)]
      [] OTHER -> RefUndefined

\* Whether toks is one parenthesised expression: its first parenthesis
\* closes at its last token.
Parenthesised(toks) ==
    /\ Len(toks) >= 3
    /\ toks[1].type = "LeftParen"
    /\ toks[Len(toks)].type = "RightParen"
    /\ \A k \in 2..Len(toks) : ParenDepth(toks, k) >= 1

RECURSIVE RefValue(_, _)

RefSplit(toks, k, env) ==
    RefApply(toks[k].type, RefValue(SubSeq(toks, 1, k - 1), env),
             RefValue(SubSeq(toks, k + 1, Len(toks)), env))

RefValue(toks, env) ==
    CASE toks = <<>> -> RefUndefined
      [] toks # <<>> /\ BinaryAt(toks, {"Plus", "Minus"}) # {} ->
           RefSplit(toks, Maximum(BinaryAt(toks, {"Plus", "Minus"})), env)
      [] toks # <<>> /\ BinaryAt(toks, {"Plus", "Minus"}) = {}
           /\ BinaryAt(toks, {"Mul", "Div"}) # {} ->
           RefSplit(toks, Maximum(BinaryAt(toks, {"Mul", "Div"})), env)
      [] OTHER ->
           IF toks[1].type \in {"Plus", "Minus"}
           THEN RefApply(toks[1].type, NumberV(0), RefValue(Tail(toks), env))
           ELSE IF Parenthesised(toks)
                THEN RefValue(SubSeq(toks, 2, Len(toks) - 1), env)
                ELSE IF Len(toks) = 1
                     THEN RefAtom(toks[1], env)
                     ELSE RefUndefined

\* The statements of a program without loops and branches: its tokens
\* between the `;`.
RECURSIVE SplitAtSemi(_, _)
SplitAtSemi(toks, acc) ==
    IF toks = <<>>
    THEN <<acc>>
    ELSE IF Head(toks).type = "Semi"
         THEN <<acc>> \o SplitAtSemi(Tail(toks), <<>>)
         ELSE SplitAtSemi(Tail(toks), Append(acc, Head(toks)))

\* var <name> : int := <expression>
IsIntDeclAssign(st) ==
    /\ Len(st) >= 6
    /\ st[1].type = "Var"
    /\ st[2].type = "ID"
    /\ st[3].type = "Colon"
    /\ st[4] = Keyword("Integer")
    /\ st[5].type = "Assign"

\* The table after the declarations sts, from the table env, or
\* RefUndefined.
RECURSIVE RefDeclare(_, _)

RefStore(sts, env, name, value) ==
    IF value.tag = "Number"
    THEN RefDeclare(Tail(sts), insert(env, to_lowercase(name), value))
    ELSE RefUndefined

RefDeclare(sts, env) ==
    IF sts = <<>> \/ sts = <<(<<>>)>>
    THEN [tag |-> "Table", table |-> env]
    ELSE IF IsIntDeclAssign(Head(sts))
         THEN RefStore(sts, env, Head(sts)[2].value.s,
                       RefValue(SubSeq(Head(sts), 6, Len(Head(sts))), env))
         ELSE RefUndefined

RefTable(toks) == RefDeclare(SplitAtSemi(toks, <<>>), <<>>)

\* The table the test variables_and_arithmetic expects.
TestExpected ==
    [k \in {<<"a">>, <<"b">>, <<"c">>} |->
       CASE k = <<"a">> -> NumberV(2)
         [] k = <<"b">> -> NumberV(30)
         [] k = <<"c">> -> NumberV(32)]

\* C1: a program of integer declarations with initializers, in which no
\* intermediate result leaves the 32-bit range and no divisor is zero, runs
\* to its end and leaves in the global table exactly the lower-cased
\* declared names, each with the reference value of its initializer:
\* `*` and `/` before `+` and `-`, equal precedence from the left, signs
\* before any binary operator, `/` rounding toward zero.  The program of
\* the test ends with {a: 2, b: 30, c: 32}.
C1_ArithmeticDeclarations ==
    /\ (status \in {"done", "panic"} /\ RefTable(tokens).tag = "Table")
         => (status = "done" /\ global_scope = RefTable(tokens).table)
    /\ (status = "done" /\ tokens = TestProgram)
         => global_scope = TestExpected

C1_Witness ==
    /\ status = "done"
    /\ tokens = TestProgram
    /\ global_scope = TestExpected
    /\ RefTable(tokens).tag = "Table"


(***************************************************************************)
(* The history of a run: the events of one for-loop or one if-statement    *)
(***************************************************************************)
\* Whether the frame that the event at index k opened, a "for" or an "if"
\* event, is still open after the event at index j.
OpenUntil(tr, k, j) ==
    \A m \in (k + 1)..j : ~(tr[m].ev = "exit" /\ tr[m].d = tr[k].d)

\* The events of that frame itself, not those of the frames nested in it.
InFrame(tr, k, j) == j > k /\ tr[j].d = tr[k].d /\ OpenUntil(tr, k, j)

\* The event at index j closes the frame opened at index k.
ClosesFrame(tr, k, j) ==
    /\ j > k
    /\ tr[j].ev = "exit"
    /\ tr[j].d = tr[k].d
    /\ OpenUntil(tr, k, j - 1)

IsClosed(tr, k) == \E j \in (k + 1)..Len(tr) : ClosesFrame(tr, k, j)

\* The indices of the iterations of the loop opened at index k.
Iterations(tr, k) ==
    {j \in (k + 1)..Len(tr) : InFrame(tr, k, j) /\ tr[j].ev = "iter"}

\* The index after the last event of the execution of a statement list that
\* starts after index j in the frame opened at index k: the next iteration,
\* the exit of the frame, or the end of the history.
ExecutionEnd(tr, k, j) ==
    IF \E m \in (j + 1)..Len(tr) :
         tr[m].d = tr[k].d /\ tr[m].ev \in {"iter", "exit"}
    THEN CHOOSE m \in (j + 1)..Len(tr) :
           /\ tr[m].d = tr[k].d /\ tr[m].ev \in {"iter", "exit"}
           /\ \A q \in (j + 1)..(m - 1) :
                ~(tr[q].d = tr[k].d /\ tr[q].ev \in {"iter", "exit"})
    ELSE Len(tr) + 1

IsStatementOf(tr, k, event) == event.ev = "visit" /\ event.d = tr[k].d

\* The statements visited by that execution, in the order of their visits.
RECURSIVE NodesOf(_)
NodesOf(events) ==
    IF events = <<>>
    THEN <<>>
    ELSE <<Head(events).node>> \o NodesOf(Tail(events))

Executed(tr, k, j) ==
    NodesOf(SelectSeq(SubSeq(tr, j + 1, ExecutionEnd(tr, k, j) - 1),
                      LAMBDA event : IsStatementOf(tr, k, event)))

\* The execution has come to the end of its statement list.
ExecutionComplete(tr, k, j) == ExecutionEnd(tr, k, j) <= Len(tr)

IsPrefix(s, t) == Len(s) <= Len(t) /\ s = SubSeq(t, 1, Len(s))

\* The for-loops the run has entered: the indices of their "for" events.
\* The event before each is the visit of the ForLoop node.
Loops(tr) == {k \in 1..Len(tr) : tr[k].ev = "for"}

RangeSize(start, end) == IF start < end THEN end - start ELSE 0

\* C2: the loops entered are those whose variable holds an integer and whose
\* bounds are integers s and e.  The m-th iteration of such a loop binds
\* i = s + m - 1 < e (ascending, each value once, never e); the statements
\* executed in an iteration are the body, in order, once each (a prefix of
\* it while the iteration is under way or when it failed); a loop that has
\* returned has made exactly max(0, e - s) iterations; and at the start of
\* each execution of the body the table holds i under the loop variable.
C2_ForLoopRange ==
    /\ \A k \in Loops(trace) :
         /\ \A j \in Iterations(trace, k) :
              /\ trace[j].i = trace[k].start
                                + Cardinality({m \in Iterations(trace, k) : m < j})
              /\ trace[j].i < trace[k].end
              /\ IsPrefix(Executed(trace, k, j), trace[k - 1].node.statements)
              /\ ExecutionComplete(trace, k, j)
                   => Executed(trace, k, j) = trace[k - 1].node.statements
         /\ IsClosed(trace, k)
              => Cardinality(Iterations(trace, k))
                   = RangeSize(trace[k].start, trace[k].end)
    /\ (status = "running" /\ Top.kind = "For" /\ Top.pc = 1)
         => /\ trace[Len(trace)].ev = "iter"
            /\ key_of(Top.var_name) \in DOMAIN global_scope
            /\ global_scope[key_of(Top.var_name)]
                 = NumberV(trace[Len(trace)].i)

\* A loop over 0 .. 2 has returned after two executions of its body, and a
\* loop nested in it, whose start is not below its end, without any.
C2_Witness ==
    /\ \E k \in Loops(trace) :
         /\ IsClosed(trace, k)
         /\ trace[k].start = 0 /\ trace[k].end = 2
         /\ Cardinality(Iterations(trace, k)) = 2
    /\ \E k \in Loops(trace) :
         /\ IsClosed(trace, k)
         /\ trace[k].start >= trace[k].end
         /\ Iterations(trace, k) = {}

\* The table a prelude of LoopPreludes leaves.
TableAfterPrelude(prelude) ==
    IF prelude = <<>>
    THEN <<>>
    ELSE IF prelude[4].type = "Integer"
         THEN (<<"i">> :> NumberV(5))
         ELSE (<<"i">> :> StringV(<<>>))

\* C3: a for-loop with an empty body is a no-op.  In a program
\* `<prelude> for i in s .. e do end for <suffix>` no ForLoop node is ever
\* visited and no iteration happens; when the run has ended, the table is
\* the one the prelude left, whether or not i is declared, and the run has
\* failed only where it fails without the loop: at a `print i` of the
\* suffix when i is undeclared.
C3_EmptyLoopIsNoOp ==
    \A prelude \in LoopPreludes, s \in RangeLiterals, e \in RangeLiterals,
       suffix \in LoopSuffixes :
      tokens = EmptyLoopProgram(prelude, s, e, <<>>, suffix)
        => /\ \A k \in 1..Len(trace) :
                /\ trace[k].ev # "iter"
                /\ trace[k].ev = "visit" => trace[k].node.kind # "ForLoop"
           /\ status \in {"done", "panic"}
                => /\ DOMAIN global_scope = DOMAIN TableAfterPrelude(prelude)
                   /\ \A key \in DOMAIN global_scope :
                        global_scope[key] = TableAfterPrelude(prelude)[key]
                   /\ status = "panic" <=> (prelude = <<>> /\ suffix # <<>>)

(***************************************************************************)
(* References to names without entry                                       *)
(***************************************************************************)
\* Whether an expression has a Var whose name has no entry in the table.
RECURSIVE HasUndeclared(_, _)
HasUndeclared(node, gs) ==
    CASE node.kind = "Var" -> key_of(node.value.s) \notin DOMAIN gs
      [] node.kind \in {"BinOp", "BoolExpr"} ->
           HasUndeclared(node.left, gs) \/ HasUndeclared(node.right, gs)
      [] node.kind = "UnaryOp" -> HasUndeclared(node.expr, gs)
      [] OTHER -> FALSE

\* Whether the visit of a statement refers to a name without entry: as the
\* variable of a print, the target of an assignment or of a read, or a Var
\* of an expression the visit evaluates.
RefersToUndeclared(node, gs) ==
    CASE node.kind \in {"PrintVar", "Read"} -> HasUndeclared(node.var_node, gs)
      [] node.kind = "Assign" ->
           HasUndeclared(node.left, gs) \/ HasUndeclared(node.right, gs)
      [] node.kind = "DeclAssign" -> HasUndeclared(node.right, gs)
      [] node.kind = "IfStatement" -> HasUndeclared(node.bool_expr, gs)
      [] node.kind = "ForLoop" ->
           HasUndeclared(node.start, gs) \/ HasUndeclared(node.end, gs)
      [] OTHER -> FALSE

\* C4: the visit of a statement that refers to a name without entry aborts
\* the run, creates no entry (the table is unchanged) and writes no output.
C4_UndeclaredIsFatal ==
    [][(status = "running" /\ ~AtEnd
          /\ RefersToUndeclared(Current, global_scope))
         => /\ status' = "panic"
            /\ global_scope' = global_scope
            /\ output' = output]_vars

\* The run has printed a declared variable and then aborted at the print
\* of a name without entry.
C4_Witness ==
    /\ status = "panic"
    /\ output # <<>>
    /\ trace # <<>>
    /\ trace[Len(trace)].ev = "visit"
    /\ trace[Len(trace)].node.kind = "PrintVar"
    /\ HasUndeclared(trace[Len(trace)].node.var_node, global_scope)

(***************************************************************************)
(* Names that differ in letter case                                        *)
(***************************************************************************)
\* The name a statement writes under.
Written(node) ==
    CASE node.kind = "VarDecl" -> node.var_node.value.s
      [] node.kind = "DeclAssign" -> node.left.value.s
      [] node.kind = "Assign" -> node.left.value.s
      [] node.kind = "Read" -> node.var_node.value.s

\* The step changes the table at most at the given key.
ChangesOnly(key) ==
    /\ DOMAIN global_scope' \subseteq DOMAIN global_scope \cup {key}
    /\ \A k \in DOMAIN global_scope :
         k # key => (k \in DOMAIN global_scope'
                       /\ global_scope'[k] = global_scope[k])

\* C5: every key of the table is in lower case, so the table never holds
\* two entries that differ only by case; whatever the spelling of the name
\* in the statement, VarDecl, DeclAssign, Assign, Read and the binding of a
\* loop variable write the entry of the lower-cased name and no other, and
\* PrintVar and a Var reference read that entry.
C5_NamesCaseInsensitive ==
    [][/\ \A key \in DOMAIN global_scope' : key = to_lowercase(key)
       /\ (status = "running" /\ ~AtEnd
             /\ Current.kind \in {"VarDecl", "DeclAssign", "Assign", "Read"})
            => /\ ChangesOnly(to_lowercase(Written(Current)))
               /\ status' = "running"
                    => to_lowercase(Written(Current)) \in DOMAIN global_scope'
       /\ (status = "running" /\ AtEnd /\ Top.kind = "For"
             /\ range_has_next(Top.next, Top.end))
            => /\ ChangesOnly(to_lowercase(Top.var_name))
               /\ global_scope'[to_lowercase(Top.var_name)] = NumberV(Top.next)
       /\ (At("PrintVar")
             /\ to_lowercase(Current.var_node.value.s) \in DOMAIN global_scope)
            => output' = Append(output,
                                printed(global_scope[
                                  to_lowercase(Current.var_node.value.s)]).s)
       /\ (At("DeclAssign") /\ Current.right.kind = "Var"
             /\ to_lowercase(Current.right.value.s) \in DOMAIN global_scope)
            => global_scope'[to_lowercase(Current.left.value.s)]
                 = global_scope[to_lowercase(Current.right.value.s)]
      ]_vars

\* `var Nb : int; nb := 7; print NB` has run: one entry, nb = 7, printed.
C5_Witness ==
    /\ status = "done"
    /\ tokens = SrcList(<<SrcDecl(<<"N", "b">>, "Integer"),
                          SrcAssign(<<"n", "b">>, SrcInt(7)),
                          SrcPrintVar(<<"N", "B">>)>>)
    /\ DOMAIN global_scope = {<<"n", "b">>}
    /\ global_scope[<<"n", "b">>] = NumberV(7)
    /\ output = <<(<<"7">>)>>

\* The if-statements whose condition evaluated to a boolean: the indices of
\* their "if" events.  The event before each is the visit of the node.
Ifs(tr) == {k \in 1..Len(tr) : tr[k].ev = "if"}

\* The statement list the claim selects for the condition of the "if" event
\* at index k.
Selected(tr, k) ==
    IF tr[k].cond
    THEN tr[k - 1].node.statements
    ELSE tr[k - 1].node.else_statements

\* C6: the statements an if-statement executes are those of the then-list
\* when its condition is true and those of the else-list when it is false,
\* in order and once each: a prefix of that list while the branch is under
\* way or when it failed, the whole list when the statement has returned,
\* and nothing else.
C6_IfExecutesOneBranch ==
    \A k \in Ifs(trace) :
      /\ IsPrefix(Executed(trace, k, k), Selected(trace, k))
      /\ IsClosed(trace, k) => Executed(trace, k, k) = Selected(trace, k)

\* In one run an if-statement with two different branches has returned
\* after its condition was false, and one after its condition was true.
C6_Witness ==
    /\ \E k \in Ifs(trace) :
         /\ IsClosed(trace, k)
         /\ ~trace[k].cond
         /\ trace[k - 1].node.statements # trace[k - 1].node.else_statements
         /\ Executed(trace, k, k) = trace[k - 1].node.else_statements
    /\ \E k \in Ifs(trace) :
         /\ IsClosed(trace, k)
         /\ trace[k].cond
         /\ Executed(trace, k, k) = trace[k - 1].node.statements

(***************************************************************************)
(* Declarations                                                            *)
(***************************************************************************)
\* The table with the entry of a key set to a value, added or replaced.
WithEntry(gs, key, value) ==
    [k \in DOMAIN gs \cup {key} |-> IF k = key THEN value ELSE gs[k]]

\* C7: a declaration without initializer stores, under the declared name,
\* 0 for int, the empty string for string and true for bool, whether or not
\* the name has an entry already; the other entries are kept.
C7_DeclarationDefaults ==
    [][At("VarDecl")
         => /\ status' = "running"
            /\ Current.type_node.token.type = "Integer"
                 => global_scope' =
                      WithEntry(global_scope,
                                to_lowercase(Current.var_node.value.s),
                                NumberV(0))
            /\ Current.type_node.token.type = "Str"
                 => global_scope' =
                      WithEntry(global_scope,
                                to_lowercase(Current.var_node.value.s),
                                StringV(<<>>))
            /\ Current.type_node.token.type = "Bool"
                 => global_scope' =
                      WithEntry(global_scope,
                                to_lowercase(Current.var_node.value.s),
                                BooleanV(TRUE))]_vars

\* `var x : int := 7; print x; var X : bool; print x` has run: the entry 7
\* of x was printed, then replaced by true, which was printed.
C7_Witness ==
    /\ status = "done"
    /\ tokens = SrcList(<<SrcDeclAssign(<<"x">>, "Integer", SrcInit("Integer")),
                          SrcPrintVar(<<"x">>), SrcDecl(<<"X">>, "Bool"),
                          SrcPrintVar(<<"x">>)>>)
    /\ global_scope = (<<"x">> :> BooleanV(TRUE))
    /\ output = <<(<<"7">>), (<<"t", "r", "u", "e">>)>>

(***************************************************************************)
(* The operator + on strings                                               *)
(***************************************************************************)
\* One operand is a string and the other an integer or a boolean.
MixedOperands(left, right) ==
    \/ left.tag = "String" /\ right.tag \in {"Number", "Boolean"}
    \/ right.tag = "String" /\ left.tag \in {"Number", "Boolean"}

\* The value the claim gives to `+` on two operand values.
PlusConforms(left, right, value) ==
    /\ (left.tag = "String" /\ right.tag = "String")
         => value = StringV(left.s \o right.s)
    /\ MixedOperands(left, right) => value = PanicV

\* Every `+` of an expression conforms.
RECURSIVE AllPlusConform(_, _, _)
AllPlusConform(node, gs, oc) ==
    CASE node.kind = "BinOp" ->
           /\ AllPlusConform(node.left, gs, oc)
           /\ AllPlusConform(node.right, gs, oc)
           /\ node.op.type = "Plus"
                => PlusConforms(visit(node.left, gs, oc),
                                visit(node.right, gs, oc),
                                visit(node, gs, oc))
      [] node.kind = "UnaryOp" -> AllPlusConform(node.expr, gs, oc)
      [] OTHER -> TRUE

IsPlus(node) == node.kind = "BinOp" /\ node.op.type = "Plus"

\* C8: in the expression of a declaration or an assignment, `+` on two
\* strings yields the left string followed by the right one, which is what
\* the declaration stores; `s + t + s` is parsed as (s + t) + s; and `+` on
\* a string and an integer or boolean yields no value: the run aborts and
\* nothing is stored.
C8_StringConcatenation ==
    [][(status = "running" /\ ~AtEnd
          /\ Current.kind \in {"DeclAssign", "Assign"})
         => /\ AllPlusConform(Current.right, global_scope, overflow_checks)
            /\ (Current.kind = "DeclAssign" /\ IsPlus(Current.right)
                  /\ visit(Current.right.left, global_scope,
                           overflow_checks).tag = "String"
                  /\ visit(Current.right.right, global_scope,
                           overflow_checks).tag = "String")
                 => /\ status' = "running"
                    /\ global_scope'[to_lowercase(Current.left.value.s)]
                         = StringV(visit(Current.right.left, global_scope,
                                         overflow_checks).s
                                     \o visit(Current.right.right, global_scope,
                                              overflow_checks).s)
            /\ (IsPlus(Current.right)
                  /\ MixedOperands(visit(Current.right.left, global_scope,
                                         overflow_checks),
                                   visit(Current.right.right, global_scope,
                                         overflow_checks)))
                 => /\ status' = "panic"
                    /\ global_scope' = global_scope
                    /\ output' = output
            /\ (tokens = StringProgram(SrcPlus(SrcPlus(SrcId(<<"s">>),
                                                       SrcId(<<"t">>)),
                                               SrcId(<<"s">>)))
                  /\ IsPlus(Current.right))
                 => /\ IsPlus(Current.right.left)
                    /\ Current.right.right.kind = "Var"]_vars

\* `var u : string := s + t + s; print u` has run with s = "ab", t = "c".
C8_Witness ==
    /\ status = "done"
    /\ tokens = StringProgram(SrcPlus(SrcPlus(SrcId(<<"s">>), SrcId(<<"t">>)),
                                      SrcId(<<"s">>)))
    /\ global_scope[<<"u">>] = StringV(<<"a", "b", "c", "a", "b">>)
    /\ output = <<(<<"g", "o">>), (<<"a", "b", "c", "a", "b">>)>>

(***************************************************************************)
(* Runtime errors                                                          *)
(***************************************************************************)
\* Whether the visit of a statement fails, stated on the values involved:
\* an expression without value (undeclared name, operands of the wrong
\* type, division by zero, overflow in a build that checks it), a value of
\* the wrong type for the target, the loop or the condition, or a line of
\* input that is no integer for an integer variable.
StatementFails(node, gs, oc, in) ==
    CASE node.kind = "DeclAssign" -> visit(node.right, gs, oc).tag = "Panic"
      [] node.kind = "Assign" ->
           \/ HasUndeclared(node.left, gs)
           \/ visit(node.right, gs, oc).tag = "Panic"
           \/ gs[to_lowercase(node.left.value.s)].tag
                # visit(node.right, gs, oc).tag
      [] node.kind = "PrintVar" -> HasUndeclared(node.var_node, gs)
      [] node.kind = "Read" ->
           \/ HasUndeclared(node.var_node, gs)
           \/ gs[to_lowercase(node.var_node.value.s)].tag = "Boolean"
           \/ /\ gs[to_lowercase(node.var_node.value.s)].tag = "Number"
              /\ ~parse_i32_is_ok(pop_newline(read_line(in)))
      [] node.kind = "ForLoop" ->
           \/ HasUndeclared(node.var_node, gs)
           \/ gs[to_lowercase(node.var_node.value.s)].tag # "Number"
           \/ visit(node.start, gs, oc).tag # "Number"
           \/ visit(node.end, gs, oc).tag # "Number"
      [] node.kind = "IfStatement" ->
           visit(node.bool_expr, gs, oc).tag # "Boolean"
      [] OTHER -> FALSE

\* C9: the visit of a statement that fails ends the run at once, with the
\* table and the output as the statements before it left them; after the
\* run has ended that way no step is taken, so that no later statement is
\* evaluated; and no step ever removes or changes a line of the output.
C9_ErrorsAreFatal ==
    [][/\ (status = "running" /\ ~AtEnd
             /\ StatementFails(Current, global_scope, overflow_checks, stdin))
            => /\ status' = "panic"
               /\ global_scope' = global_scope
               /\ output' = output
       /\ status # "panic"
       /\ IsPrefix(output, output')]_vars

\* `var n : int := 1; print "a"; read n; print "b"; n := 2` has aborted at
\* the read of the line "x": "a" is printed, "b" is not, n is 1.
C9_Witness ==
    /\ status = "panic"
    /\ trace # <<>>
    /\ trace[Len(trace)].ev = "visit"
    /\ trace[Len(trace)].node.kind = "Read"
    /\ tokens \in ErrorPrograms
    /\ output = <<(<<"a">>)>>
    /\ global_scope = (<<"n">> :> NumberV(1))
    /\ stack[1].pc = 3

(***************************************************************************)
(* Declarations that no `;` follows                                        *)
(***************************************************************************)
\* Whether a statement list has a VarDecl node, at any depth.
RECURSIVE ContainsVarDecl(_)
ContainsVarDecl(statements) ==
    \E k \in 1..Len(statements) :
      \/ statements[k].kind = "VarDecl"
      \/ /\ statements[k].kind = "ForLoop"
         /\ ContainsVarDecl(statements[k].statements)
      \/ /\ statements[k].kind = "IfStatement"
         /\ \/ ContainsVarDecl(statements[k].statements)
            \/ ContainsVarDecl(statements[k].else_statements)

\* C10: a program whose last declaration `var x : <type>` stands directly
\* before the end of the input, before `end` or before `else` is parsed:
\* once interpret has called the parser, the run has not failed in it and
\* has the Program with the VarDecl node to evaluate.
C10_DeclarationWithoutSemi ==
    (tokens \in DeclNoSemiPrograms /\ status # "new")
      => /\ stack # <<>>
         /\ ContainsVarDecl(stack[1].stmts)

\* Every such program makes the parser fail, and nothing is evaluated.
C10_ParserRejects ==
    (tokens \in DeclNoSemiPrograms /\ status # "new")
      => (status = "panic" /\ stack = <<>> /\ trace = <<>>)

\* With the `;` after the declaration the same programs are parsed and run.
C10_ParsedWithSemi ==
    (tokens \in DeclSemiPrograms /\ status # "new")
      => /\ stack # <<>>
         /\ ContainsVarDecl(stack[1].stmts)

(***************************************************************************)
(* String literals                                                         *)
(***************************************************************************)
\* Whether the body of a literal is made of plain letters and of escapes,
\* each a backslash and the character it escapes, without any `;`.
RECURSIVE WellEscaped(_)
WellEscaped(body) ==
    IF body = <<>>
    THEN TRUE
    ELSE IF Head(body) = "\\"
         THEN /\ Len(body) >= 2
              /\ body[2] # ";"
              /\ WellEscaped(SubSeq(body, 3, Len(body)))
         ELSE /\ Head(body) \notin {"\"", ";"}
              /\ WellEscaped(Tail(body))

\* The payload of such a body: each escape stands for the escaped character.
RECURSIVE Unescape(_)
Unescape(body) ==
    IF body = <<>>
    THEN <<>>
    ELSE IF Head(body) = "\\"
         THEN <<body[2]>> \o Unescape(SubSeq(body, 3, Len(body)))
         ELSE <<Head(body)>> \o Unescape(Tail(body))

\* C11: the text `print "<body>"`, where the body is made of letters and of
\* escapes, is scanned into the print keyword and one StringLiteral token
\* whose payload has, for each escape, the escaped character; an escaped
\* quote does not end the literal, the closing quote does; the run prints
\* that payload.
C11_BackslashEscapes ==
    \A body \in LiteralBodies, rest \in LiteralRests :
      (text = LiteralText(body, rest) /\ status # "text" /\ WellEscaped(body))
        => /\ Len(tokens) >= 2
           /\ tokens[1] = Keyword("Print")
           /\ tokens[2] = StringLiteralToken(Unescape(body))
           /\ rest = <<>> => Len(tokens) = 2
           /\ status = "done" => output[1] = Unescape(body)

\* What the scanner does with `print "a\"b"`: the payload is abb.
C11_EscapeTakesNextChar ==
    (text = LiteralText(<<"a", "\\", "\"", "b">>, <<>>) /\ status # "text")
      => tokens = <<Keyword("Print"), StringLiteralToken(<<"a", "b", "b">>)>>

(***************************************************************************)
(* The loop variable after a for-loop                                      *)
(***************************************************************************)
\* This step is the return of the loop whose frame is on top of the stack.
LoopReturns ==
    /\ status = "running"
    /\ Top.kind = "For"
    /\ Len(trace') = Len(trace) + 1
    /\ trace'[Len(trace')] = [ev |-> "exit", d |-> Len(stack)]

\* That loop has not executed its body: its range was empty.
NoIteration == trace[Len(trace)].ev = "for"

\* This step enters a loop whose start is not below its end.
EntersEmptyLoop ==
    /\ At("ForLoop")
    /\ Len(trace') = Len(trace) + 2
    /\ trace'[Len(trace')].ev = "for"
    /\ trace'[Len(trace')].start >= trace'[Len(trace')].end

\* C12: when a for-loop returns, whatever statements its body contains, the
\* table holds end - 1 under the loop variable if the loop has executed its
\* body (start < end); a loop over an empty range leaves the table as it was
\* when the loop was entered, so that the variable keeps its prior value.
C12_LoopVariableAfterLoop ==
    [][/\ LoopReturns
         => /\ key_of(Top.var_name) \in DOMAIN global_scope'
            /\ ~NoIteration
                 => global_scope'[key_of(Top.var_name)] = NumberV(Top.end - 1)
            /\ NoIteration => global_scope' = global_scope
       /\ EntersEmptyLoop => global_scope' = global_scope]_vars

\* Whether the execution of a statement may write the entry of the key: by
\* a declaration, an assignment or a read of that name, or by a loop over
\* it, also inside the statement lists of an if-statement or of a loop.
RECURSIVE WritesEntry(_, _)
WritesEntry(node, key) ==
    CASE node.kind \in {"VarDecl", "DeclAssign", "Assign", "Read"} ->
           to_lowercase(Written(node)) = key
      [] node.kind = "ForLoop" ->
           \/ to_lowercase(node.var_node.value.s) = key
           \/ \E m \in 1..Len(node.statements) :
                WritesEntry(node.statements[m], key)
      [] node.kind = "IfStatement" ->
           \/ \E m \in 1..Len(node.statements) :
                WritesEntry(node.statements[m], key)
           \/ \E m \in 1..Len(node.else_statements) :
                WritesEntry(node.else_statements[m], key)
      [] OTHER -> FALSE

\* The body of the loop on top of the stack writes the loop variable.
BodyWritesLoopVariable ==
    \E m \in 1..Len(Top.stmts) :
      WritesEntry(Top.stmts[m], to_lowercase(Top.var_name))

\* The "for" event of the loop on top of the stack: its bounds as
\* visit_for_loop evaluated them.
LoopEvent ==
    trace[CHOOSE k \in Loops(trace) :
            trace[k].d = Len(stack) /\ OpenUntil(trace, k, Len(trace))]

\* C12 as amended: when a for-loop returns whose body has no statement that
\* writes the loop variable, the table holds end - 1 under the loop variable
\* if the loop has executed its body (start < end); a loop over an empty
\* range, whatever its body, leaves the table as it was when the loop was
\* entered.
C12_LoopVariableUnlessWritten ==
    [][/\ LoopReturns
         => /\ (LoopEvent.start < LoopEvent.end) = ~NoIteration
            /\ (~NoIteration /\ ~BodyWritesLoopVariable)
                 => /\ to_lowercase(Top.var_name) \in DOMAIN global_scope'
                    /\ global_scope'[to_lowercase(Top.var_name)]
                         = NumberV(LoopEvent.end - 1)
            /\ NoIteration => global_scope' = global_scope
       /\ EntersEmptyLoop => global_scope' = global_scope]_vars

\* A loop over 0 .. 2 whose body prints i and adds it to n returns, and i is
\* 1; and a loop over an empty range returns.
C12_Witness ==
    /\ status = "running"
    /\ trace # <<>>
    /\ trace[Len(trace)].ev = "exit"
    /\ \E k \in Loops(trace) :
         /\ ClosesFrame(trace, k, Len(trace))
         /\ trace[k].start = 0 /\ trace[k].end = 2
         /\ Len(trace[k - 1].node.statements) = 2
         /\ ~\E m \in 1..2 : WritesEntry(trace[k - 1].node.statements[m], <<"i">>)
         /\ trace[k - 1].node.var_node.value.s = <<"i">>
    /\ global_scope[<<"i">>] = NumberV(1)

(***************************************************************************)
(* The loop variable of a for-loop that is entered                         *)
(***************************************************************************)
\* The loop variable of the for-loop about to be visited has no entry.
LoopVariableUnbound ==
    to_lowercase(Current.var_node.value.s) \notin DOMAIN global_scope

\* Both bounds of that for-loop evaluate to integers.
BoundsAreIntegers ==
    /\ visit(Current.start, global_scope, overflow_checks).tag = "Number"
    /\ visit(Current.end, global_scope, overflow_checks).tag = "Number"

\* This step enters the loop: its frame is pushed and the run goes on.
LoopEntered ==
    /\ status' = "running"
    /\ Len(stack') = Len(stack) + 1
    /\ stack'[Len(stack')].kind = "For"

\* This step aborts the run and leaves table and output as they were.
RunAborted ==
    /\ status' = "panic"
    /\ global_scope' = global_scope
    /\ output' = output

\* C13: a for-loop whose loop variable has no entry in the table is not
\* rejected: with integer bounds the loop is entered (and then binds the
\* variable at each iteration); only a loop variable whose entry holds a
\* non-integer value is rejected with a fatal error.
C13_UnboundLoopVariableAccepted ==
    [][At("ForLoop")
         => /\ (LoopVariableUnbound /\ BoundsAreIntegers) => LoopEntered
            /\ (~LoopVariableUnbound
                  /\ global_scope[to_lowercase(Current.var_node.value.s)].tag
                       # "Number")
                 => RunAborted]_vars

\* C13 as amended: a for-loop is entered only if its loop variable has an
\* entry that holds an integer (and its bounds are integers); a loop
\* variable without entry is rejected with a fatal error just as one whose
\* entry holds a string or a boolean, with table and output unchanged.
C13_LoopVariableMustBeInteger ==
    [][At("ForLoop")
         => /\ LoopVariableUnbound => RunAborted
            /\ (~LoopVariableUnbound
                  /\ global_scope[to_lowercase(Current.var_node.value.s)].tag
                       # "Number")
                 => RunAborted
            /\ (~LoopVariableUnbound
                  /\ global_scope[to_lowercase(Current.var_node.value.s)].tag
                       = "Number"
                  /\ BoundsAreIntegers)
                 => LoopEntered]_vars

\* `for i in 0 .. 2 do print "b" end for` without any declaration: the visit
\* of the loop has aborted the run with an empty table and no output.
C13_Witness ==
    /\ status = "panic"
    /\ Len(trace) = 1
    /\ trace[1].node.kind = "ForLoop"
    /\ trace[1].node.start = Num(IntegerToken(0))
    /\ trace[1].node.end = Num(IntegerToken(2))
    /\ trace[1].node.statements # <<NoOp>>
    /\ global_scope = <<>>
    /\ output = <<>>

(***************************************************************************)
(* Read                                                                    *)
(***************************************************************************)
\* The line a Read receives, without its trailing newline if it has one;
\* the empty text at the end of the input.
LineRead ==
    IF stdin = <<>>
    THEN <<>>
    ELSE IF Head(stdin) # <<>> /\ Head(stdin)[Len(Head(stdin))] = "\n"
         THEN SubSeq(Head(stdin), 1, Len(Head(stdin)) - 1)
         ELSE Head(stdin)

\* The lines of the inputs enumerated that are the text of a 32-bit integer.
NumericLines == {<<"7">>, <<"-", "3">>, <<"4", "2">>}

\* The entry of the variable that the statement about to be visited reads
\* or assigns.
TargetKey == to_lowercase(Written(Current))

\* The step stores the value under the target and changes nothing else.
Stores(value) ==
    /\ status' = "running"
    /\ global_scope' = [global_scope EXCEPT ![TargetKey] = value]

\* The program is a read into an integer variable followed by a use of the
\* variable as an integer.
IntegerUseAfterRead ==
    tokens \in {ReadProgram(prelude, use) :
                  prelude \in {SrcDecl(<<"n">>, "Integer") \o Semi,
                               SrcDeclAssign(<<"n">>, "Integer", SrcInt(5))
                                 \o Semi},
                  use \in IntegerUses}

\* C14: a Read into a variable that holds an integer overwrites the entry
\* with the raw line as a string-tagged value if the line, one trailing
\* newline stripped, is the text of a 32-bit integer, and otherwise aborts
\* the run with the entry unchanged; a Read into a variable that holds a
\* string stores the raw line.  After a successful Read into an integer
\* variable, a use of the variable in arithmetic, as the target of an
\* assignment of an integer or as a loop variable fails.
C14_ReadStoresText ==
    [][/\ (At("Read") /\ TargetKey \in DOMAIN global_scope)
            => /\ (global_scope[TargetKey].tag = "Number"
                     /\ LineRead \in NumericLines)
                    => Stores(StringV(LineRead))
               /\ (global_scope[TargetKey].tag = "Number"
                     /\ LineRead \notin NumericLines)
                    => RunAborted
               /\ global_scope[TargetKey].tag = "String"
                    => Stores(StringV(LineRead))
       /\ (IntegerUseAfterRead /\ Len(trace) = 2 /\ status = "running")
            => /\ global_scope[<<"n">>].tag = "String"
               /\ RunAborted
      ]_vars

\* `var n : int := 5; read N; n := n + 1` with the line 7 has stored the
\* text 7 under n and failed at the addition.
C14_Witness ==
    /\ tokens = ReadProgram(SrcDeclAssign(<<"n">>, "Integer", SrcInt(5))
                              \o Semi,
                            SrcAssign(<<"n">>,
                                      SrcPlus(SrcId(<<"n">>), SrcInt(1))))
    /\ status = "panic"
    /\ Len(trace) = 3
    /\ global_scope[<<"n">>] = StringV(<<"7">>)

(***************************************************************************)
(* Assign                                                                  *)
(***************************************************************************)
\* The value of the right-hand side of the assignment about to be visited.
NewValue == visit(Current.right, global_scope, overflow_checks)

Variants == {"Number", "String", "Boolean"}

\* C15: an Assign to a variable that has an entry, whose right-hand side
\* evaluates to a value, overwrites the entry with that value if and only
\* if the stored and the new value are of the same variant; on any other
\* pairing the run aborts and the table is left as it was.  No visit of an
\* Assign changes the variant a variable holds, or any other entry.
C15_AssignKeepsVariant ==
    [][At("Assign")
         => /\ (TargetKey \in DOMAIN global_scope /\ NewValue.tag \in Variants)
                 => IF global_scope[TargetKey].tag = NewValue.tag
                    THEN Stores(NewValue)
                    ELSE RunAborted
            /\ DOMAIN global_scope' = DOMAIN global_scope
            /\ \A key \in DOMAIN global_scope :
                 global_scope'[key].tag = global_scope[key].tag
            /\ \A key \in DOMAIN global_scope \ {TargetKey} :
                 global_scope'[key] = global_scope[key]]_vars

\* `var x : int := 7; var y : int := 7; X := y + y; print x` has run: the
\* assignment has replaced 7 by 14, which is printed.
C15_Witness ==
    /\ status = "done"
    /\ Len(trace) = 4
    /\ trace[3].ev = "visit"
    /\ trace[3].node.kind = "Assign"
    /\ trace[3].node.right.kind = "BinOp"
    /\ DOMAIN global_scope = {<<"x">>, <<"y">>}
    /\ global_scope[<<"x">>] = NumberV(14)
    /\ output = <<(<<"1", "4">>)>>

(***************************************************************************)
(* The conjunction                                                         *)
(***************************************************************************)
\* The condition of the if-statement about to be visited is `l & r` on two
\* names.
AtConjunction ==
    /\ At("IfStatement")
    /\ Current.bool_expr.op.type = "And"
    /\ Current.bool_expr.left.kind = "Var"
    /\ Current.bool_expr.right.kind = "Var"

\* The name holds a boolean.
HoldsBoolean(node) ==
    /\ to_lowercase(node.value.s) \in DOMAIN global_scope
    /\ global_scope[to_lowercase(node.value.s)].tag = "Boolean"

Held(node) == global_scope[to_lowercase(node.value.s)].b

\* The step enters the given statement list of the if-statement.
BranchEntered(statements) ==
    /\ status' = "running"
    /\ Len(stack') = Len(stack) + 1
    /\ stack'[Len(stack')].kind = "If"
    /\ stack'[Len(stack')].stmts = statements

\* C16: `l & r` evaluates both operands, without short-circuit: when both
\* are booleans the condition is their conjunction, so that the then-list is
\* entered if both are true and the else-list otherwise; when an operand is
\* an undeclared name or not a boolean the run aborts, also when it is the
\* right operand and the left operand is false.
C16_AndEvaluatesBoth ==
    [][AtConjunction
         => /\ (HoldsBoolean(Current.bool_expr.left)
                  /\ HoldsBoolean(Current.bool_expr.right))
                 => BranchEntered(IF Held(Current.bool_expr.left)
                                       /\ Held(Current.bool_expr.right)
                                  THEN Current.statements
                                  ELSE Current.else_statements)
            /\ ~HoldsBoolean(Current.bool_expr.left) => RunAborted
            /\ ~HoldsBoolean(Current.bool_expr.right) => RunAborted]_vars

\* `if q & u do ... end if` with q false and u undeclared has aborted the
\* run, and nothing was printed.
C16_Witness ==
    /\ tokens = AndProgram(<<"q">>, <<"u">>)
    /\ status = "panic"
    /\ Len(trace) = 4
    /\ global_scope[<<"q">>] = BooleanV(FALSE)
    /\ <<"u">> \notin DOMAIN global_scope
    /\ output = <<>>

(***************************************************************************)
(* DeclAssign                                                              *)
(***************************************************************************)
\* The step writes the value under the target, creating the entry if there
\* is none, and nothing else.
WritesTarget(value) ==
    /\ status' = "running"
    /\ DOMAIN global_scope' = DOMAIN global_scope \cup {TargetKey}
    /\ global_scope'[TargetKey] = value
    /\ \A key \in DOMAIN global_scope \ {TargetKey} :
         global_scope'[key] = global_scope[key]

\* C17: DeclAssign evaluates the initializer and writes its value under the
\* declared name, whatever the declared type and whether or not the name
\* has an entry; an initializer that is a name with an entry is stored as
\* it is when the declared type is int or string.  After
\* `var s : string; var x : int := s` the entry x holds the empty string,
\* and `var X : string := "t"` after `var x : int := 7` replaces the
\* entry x by the string t.
C17_DeclAssignStores ==
    [][/\ (At("DeclAssign") /\ NewValue.tag \in Variants)
            => WritesTarget(NewValue)
       /\ (At("DeclAssign") /\ Current.right.kind = "Var"
             /\ to_lowercase(Current.right.value.s) \in DOMAIN global_scope)
            => WritesTarget(global_scope[to_lowercase(Current.right.value.s)])
       /\ (tokens = StoreOfString /\ Len(trace') = 2 /\ Len(trace) = 1)
            => global_scope' = (<<"s">> :> StringV(<<>>))
                                 @@ (<<"x">> :> StringV(<<>>))
       /\ (tokens = Redeclaration /\ Len(trace') = 2 /\ Len(trace) = 1)
            => /\ global_scope = (<<"x">> :> NumberV(7))
               /\ global_scope' = (<<"x">> :> StringV(<<"t">>))
      ]_vars

\* `var x : int := 7; var X : string := "t"; print x` has printed t.
C17_Witness ==
    /\ tokens = Redeclaration
    /\ status = "done"
    /\ global_scope = (<<"x">> :> StringV(<<"t">>))
    /\ output = <<(<<"t">>)>>

(***************************************************************************)
(* Parsing comes before evaluation                                         *)
(***************************************************************************)
\* Nothing has been evaluated: no statement visited, no output, no entry.
NothingEvaluated ==
    /\ trace' = <<>>
    /\ stack' = <<>>
    /\ output' = <<>>
    /\ global_scope' = <<>>
    /\ stdin' = stdin

\* C18: parsing completes before evaluation starts: for a program with a
\* lexical or syntax error, also one after its last well-formed statement,
\* interpret() aborts the run without evaluating anything: no statement is
\* visited, nothing is printed, no line is read and the table stays empty.
C18_ParseBeforeEvaluation ==
    [][/\ tokens \in SyntaxErrorPrograms
            => /\ NothingEvaluated
               /\ status = "new" /\ status' = "panic"
       /\ text \in ErrorTexts
            => /\ NothingEvaluated
               /\ status = "text"
                    => status' = "new" /\ tokens'[Len(tokens')] = LexError
               /\ status = "new" => status' = "panic"
      ]_vars

\* `var n : int := 1; print "a"; read n; print` with the line 7 on the
\* input: the run is aborted, and the line is still there.
C18_Witness ==
    /\ tokens = WellFormedPrefix \o Semi \o <<Keyword("Print")>>
    /\ status = "panic"
    /\ stdin = <<(<<"7", "\n">>)>>
    /\ output = <<>>
    /\ global_scope = <<>>
    /\ trace = <<>>

(***************************************************************************)
(* Termination                                                             *)
(***************************************************************************)
Terminated == status \in {"done", "panic"}

\* The frames of the for-loops keep the end of their range.
EndsKept ==
    \A d \in 1..Len(stack) :
      (d <= Len(stack') /\ stack[d].kind = "For" /\ stack'[d].kind = "For"
         /\ ~(d = Len(stack) /\ LoopReturns))
        => stack'[d].end = stack[d].end

\* The bounds of the loop this step enters are the values of its bound
\* expressions in the table as it is before the step.
BoundsFromEntry ==
    /\ trace'[Len(trace')].ev = "for"
    /\ NumberV(trace'[Len(trace')].start)
         = visit(Current.start, global_scope, overflow_checks)
    /\ NumberV(trace'[Len(trace')].end)
         = visit(Current.end, global_scope, overflow_checks)

\* C19: the evaluation of every parsed program, once started, terminates,
\* normally or with a fatal error (a Read at the end of the input receives
\* the empty line).
\* The bounds of a for-loop are evaluated once, when the loop is entered
\* and before its first iteration, and the loop then makes max(0, end -
\* start) iterations, whatever the body assigns to the loop variable or to
\* the variables of the bound expressions: never more, and exactly as many
\* when it returns.
C19_EvaluationTerminates ==
    /\ (status = "running") ~> Terminated
    /\ [][/\ EndsKept
          /\ (At("ForLoop") /\ LoopEntered) => BoundsFromEntry]_vars
    /\ [](\A k \in Loops(trace) :
            /\ Cardinality(Iterations(trace, k))
                 <= RangeSize(trace[k].start, trace[k].end)
            /\ IsClosed(trace, k)
                 => Cardinality(Iterations(trace, k))
                      = RangeSize(trace[k].start, trace[k].end))

\* `for i in 0 .. n do n := n + 1; print n end for` with n = 2 has run to
\* its end: two iterations, and n is 4.
C19_Witness ==
    /\ status = "done"
    /\ <<"n">> \in DOMAIN global_scope
    /\ global_scope[<<"n">>] = NumberV(4)
    /\ \E k \in Loops(trace) :
         /\ IsClosed(trace, k)
         /\ trace[k].start = 0 /\ trace[k].end = 2
         /\ trace[k - 1].node.end.kind = "Var"
         /\ Cardinality(Iterations(trace, k)) = 2

(***************************************************************************)
(* The if-statement without else                                           *)
(***************************************************************************)
\* The program is written without the `else` keyword.
NoElseKeyword == \A j \in 1..Len(tokens) : tokens[j].type # "Else"

\* The statements executed by the if-statement whose "if" event is at index
\* k, the empty statement left aside.
ExecutedStatements(k) ==
    SelectSeq(Executed(trace, k, k), LAMBDA node : node.kind # "NoOp")

\* C20: an if-statement written without the `else` keyword has an empty else
\* branch: when its condition is false, no statement written between `do`
\* and `end if` is executed.
C20_NoElseNoBranch ==
    NoElseKeyword
      => \A k \in Ifs(trace) : ~trace[k].cond => ExecutedStatements(k) = <<>>

\* What the parser does with `if <cond> do print "t" print "u" end if`: the
\* statement after the first one, which no `;` separates from it, is the
\* else-list, `else` or not.
C20_UnseparatedIsElse ==
    \A cond \in IfConditions, k \in 0..1 :
      (status \in {"running", "done"}
         /\ tokens
              = SrcList(<<SrcDeclAssign(<<"a">>, "Integer", SrcInt(k)),
                          SrcDecl(<<"t">>, "Bool"),
                          SrcDeclAssign(<<"f">>, "Bool",
                                        SrcLess(SrcId(<<"a">>), SrcInt(0))),
                          SrcIf(cond, SrcPrintStr(<<"t">>)
                                        \o SrcPrintStr(<<"u">>)),
                          SrcPrintStr(<<"z">>)>>))
        => /\ Len(stack[1].stmts[4].statements) = 1
           /\ stack[1].stmts[4].statements[1].kind = "PrintStr"
           /\ Len(stack[1].stmts[4].else_statements) = 1
           /\ stack[1].stmts[4].else_statements[1].kind = "PrintStr"
           /\ stack[1].stmts[4].else_statements[1]
                # stack[1].stmts[4].statements[1]

\* With a `;` between the statements of the list, nothing but the empty
\* statement is executed when the condition is false.
C20_SeparatedIsThen ==
    (NoElseKeyword
       /\ \A j \in 1..(Len(tokens) - 3) :
            (tokens[j].type = "Print" /\ tokens[j + 1].type = "StringLiteral")
              => tokens[j + 2].type # "Print")
      => \A k \in Ifs(trace) : ~trace[k].cond => ExecutedStatements(k) = <<>>

(***************************************************************************)
(* `;` and newline inside a string literal                                 *)
(***************************************************************************)
\* A body of plain characters, without quote or backslash, that has a `;`.
HasSeparator(body) ==
    /\ \A k \in 1..Len(body) : body[k] \notin {"\"", "\\"}
    /\ \E k \in 1..Len(body) : body[k] = ";"

\* C21: inside a string literal a `;` is a lexical error only when the
\* literal is unterminated: the text `print "<body>"`, whose body has an
\* unescaped `;` and is closed by a quote on the same line (e.g. "a;b"), is
\* scanned into the print keyword and one StringLiteral token whose payload
\* is the body, `;` included.
C21_SeparatorInLiteral ==
    \A body \in LiteralBodies :
      (HasSeparator(body) /\ text = LiteralText(body, <<>>)
         /\ status # "text")
        => tokens = <<Keyword("Print"), StringLiteralToken(body)>>

\* What the scanner does: a `;` or a newline in a literal is a lexical
\* error at that character, whether or not a quote closes the literal later
\* on; the run is aborted and nothing is printed.
C21_SeparatorIsError ==
    /\ \A body \in LiteralBodies, rest \in LiteralRests :
         (HasSeparator(body) /\ text = LiteralText(body, rest)
            /\ status # "text")
           => /\ tokens = <<Keyword("Print"), LexError>>
              /\ status \in {"new", "panic"}
              /\ output = <<>>
    /\ (text \in NewlineTexts \cup UnterminatedTexts /\ status # "text")
         => /\ tokens = <<Keyword("Print"), LexError>>
            /\ status \in {"new", "panic"}
            /\ output = <<>>

\* Without `;`, newline, quote or backslash the body is the payload.
C21_PlainLiteral ==
    \A body \in LiteralBodies :
      ((\A k \in 1..Len(body) : body[k] \in {"a", "b"})
         /\ text = LiteralText(body, <<>>) /\ status # "text")
        => tokens = <<Keyword("Print"), StringLiteralToken(body)>>
=============================================================================
